---- MODULE Spec2Model ----
(***************************************************************************)
(* Model of the MeowDev task board (taskboard.py), of the marker protocol  *)
(* that turns a persona's reply into task actions and display text         *)
(* (taskboard.py, cats.py) and of the message handlers of app.py that run  *)
(* the personas: the responder round and the work loop.                    *)
(*                                                                         *)
(* One SQLite table `tasks` (meowdev.db) is shared by the whole process.   *)
(* Every chat session constructs its own TaskBoard in on_start; the board  *)
(* keeps a dict of Task objects in memory and writes every change through  *)
(* to the table.                                                           *)
(***************************************************************************)
EXTENDS Integers, Sequences, FiniteSets, TLC

\* ------------------------------------------------------------- bounds

\* Number of add calls in a run.  The clock read by Task.created_at advances
\* with every add, so this also caps the clock.
MaxAdds == 3

\* Number of add calls in the runs that keep the history of every task
\* (SpecHistory) or have two sessions alive (SpecSessions).
MaxAddsSmall == 2

\* Number of pieces a reply is put together from.
MaxPieces == 3

\* Rounds of the work loop.  config.MAX_WORK_ROUNDS is 100; the loop reads it
\* only as the end of its range.
MAX_WORK_ROUNDS == 3

\* Number of tasks the user adds in the runs of the work loop.
MaxWorkTasks == 1

\* idle_streak >= 2 ends the work loop
IdleRounds == 2

\* ------------------------------------------------------------- inputs

\* Chat sessions of the one server process (cl.user_session is per session).
Sessions == {"s1", "s2"}

\* cat.name of two of the personas in ALL_CATS, the owner _apply_actions
\* passes to claim.
CatNames == {"Arch", "Stack"}

\* Owners a user can type in "T-001 给 <owner>" (the regex takes any \S+).
UserOwners == {"Stack"}

\* Task titles typed by a user or written by a persona.  No operation of the
\* board reads or changes a title once the task is made.
Titles == {"X"}

VARIABLES
    db,            \* rows of table tasks: the id column is the primary key
    started,       \* sessions whose on_start has run
    task_board,    \* task_board[s]: TaskBoard.tasks of session s, in dict order
    clock,         \* time.time() as read by the next Task(...) construction
    last,          \* the last call and what it returned
    issuedMax,     \* issuedMax[s]: the largest number among the ids that add
                   \* has returned on the board of s, 0 when it returned none
    claimedBy,     \* claimedBy[s][tid], for each task of the board of s that a
                   \* claim has won: the first claimant, the number of claims
                   \* that returned true, whether a reassign followed
    reply,         \* the text a persona's process produced (full in
                   \* _cat_respond), as the pieces it is put together from
    did,           \* the function last applied to reply
    actions,       \* what parse_task_actions returned
    shown,         \* the text strip_task_markers returned, the display text
    chat_history,  \* rows of table chat_history, in insertion order
    cat_memories,  \* rows of table cat_memories, in insertion order
    user_profile,  \* table user_profile: key -> value
    should_stop,   \* cl.user_session "should_stop" of session s1
    run,           \* run[h]: where the h-th on_message call of session s1 is,
                   \* and its local variables
    noted,         \* what the model notes about the work loop of call 1
    session,       \* the TeamSession of a run of MeowDevTeam.run, and where
                   \* the run is
    trail,         \* what the model notes about the run of the team
    arg,           \* what a function called on its own is given; in the runs
                   \* of the asks, the last reply of a persona
    got,           \* what the functions called on arg have returned
    features,      \* FeatureList.features: the features in insertion order
    pr_number      \* cl.user_session "pr_number" of session s1; 0 when it
                   \* is None or not set

vars == <<db, started, task_board, clock, last, issuedMax, claimedBy,
          reply, did, actions, shown, chat_history, cat_memories,
          user_profile, should_stop, run, noted, session, trail, arg, got,
          features, pr_number>>

\* ------------------------------------------------------------- task ids
\* An id is the text "T-" followed by decimal digits.  The model keeps the
\* digits as a sequence, most significant first; the prefix is constant.

RECURSIVE ParseId(_)
\* int(tid.split("-")[1])
ParseId(digits) ==
    IF digits = <<>> THEN 0
    ELSE 10 * ParseId(SubSeq(digits, 1, Len(digits) - 1)) + digits[Len(digits)]

RECURSIVE Decimal(_)
\* str(n) for n >= 0
Decimal(n) ==
    IF n < 10 THEN <<n>> ELSE Decimal(n \div 10) \o <<n % 10>>

RECURSIVE ZeroPad(_, _)
\* the 03d of the format: pad with zeros on the left up to width w
ZeroPad(digits, w) ==
    IF Len(digits) >= w THEN digits ELSE ZeroPad(<<0>> \o digits, w)

\* f"T-{n:03d}"
FormatId(n) == ZeroPad(Decimal(n), 3)

\* Ids a persona marker or a user command can carry (T-\d+): the ids add can
\* have issued and "T-1", which names no task although it parses to the same
\* number as "T-001".
TaskIdInputs == {FormatId(n) : n \in 1..MaxAdds} \cup {<<1>>}

\* ------------------------------------------------------------- the table

\* Task(id=tid, title=title): status, owner and created_at take the defaults
Task(tid, title, now) ==
    [id |-> tid, title |-> title, status |-> "pending", owner |-> "",
     created_at |-> now]

\* INSERT OR REPLACE INTO tasks ...: a row with the same primary key goes
InsertOrReplace(store, t) == {r \in store : r.id # t.id} \cup {t}

\* UPDATE tasks SET status=?, owner=? WHERE id=?
_save(store, task) ==
    {IF r.id = task.id
        THEN [r EXCEPT !.status = task.status, !.owner = task.owner]
        ELSE r : r \in store}

\* DELETE FROM tasks WHERE id = ?
DeleteRow(store, tid) == {r \in store : r.id # tid}

RECURSIVE OrderByCreatedAt(_)
\* SELECT * FROM tasks ORDER BY created_at
OrderByCreatedAt(rows) ==
    IF rows = {} THEN <<>>
    ELSE LET first == CHOOSE r \in rows :
                          \A q \in rows : r.created_at <= q.created_at
         IN  <<first>> \o OrderByCreatedAt(rows \ {first})

\* ------------------------------------------------------------- the dict

Ids(tasks) == {tasks[i].id : i \in 1..Len(tasks)}

\* self.tasks.get(task_id): the position of the task, 0 for None
Get(tasks, tid) ==
    IF tid \in Ids(tasks)
        THEN CHOOSE i \in 1..Len(tasks) : tasks[i].id = tid
        ELSE 0

\* self.tasks[tid] = t: a new key goes last, an old key keeps its place
DictSet(tasks, t) ==
    IF Get(tasks, t.id) = 0 THEN Append(tasks, t)
    ELSE [tasks EXCEPT ![Get(tasks, t.id)] = t]

\* del self.tasks[tid]
DictDel(tasks, tid) == SelectSeq(tasks, LAMBDA t : t.id # tid)

\* ------------------------------------------------------------- TaskBoard

\* TaskBoard._load: the rows in created_at order, each stored under its id
_load(store) == OrderByCreatedAt(store)

Max(S) == CHOOSE m \in S : \A x \in S : x <= m

\* _next_id from the number of tasks instead of the largest suffix
NextIdByCount(tasks) == FormatId(Len(tasks) + 1)

\* TaskBoard._next_id
_next_id(tasks) ==
    IF tasks # <<>>
        THEN FormatId(Max({ParseId(tid) : tid \in Ids(tasks)}) + 1)
        ELSE FormatId(1)

\* TaskBoard.add
add(tasks, store, title, now) ==
    LET t == Task(_next_id(tasks), title, now)
    IN  [tasks |-> DictSet(tasks, t), db |-> InsertOrReplace(store, t), ret |-> t]

\* claim without the test of the status
ClaimIgnoresStatus(tasks, store, tid, owner) ==
    LET i == Get(tasks, tid)
    IN  IF i # 0
            THEN LET t == [tasks[i] EXCEPT !.status = "doing", !.owner = owner]
                 IN  [tasks |-> [tasks EXCEPT ![i] = t], db |-> _save(store, t),
                      ret |-> TRUE]
            ELSE [tasks |-> tasks, db |-> store, ret |-> FALSE]

\* claim with the status test of reassign
ClaimTakesDoing(tasks, store, tid, owner) ==
    LET i == Get(tasks, tid)
    IN  IF i # 0 /\ tasks[i].status \in {"pending", "doing"}
            THEN LET t == [tasks[i] EXCEPT !.status = "doing", !.owner = owner]
                 IN  [tasks |-> [tasks EXCEPT ![i] = t], db |-> _save(store, t),
                      ret |-> TRUE]
            ELSE [tasks |-> tasks, db |-> store, ret |-> FALSE]

\* claim that takes every task nobody is working on, a finished one too
ClaimUnlessDoing(tasks, store, tid, owner) ==
    LET i == Get(tasks, tid)
    IN  IF i # 0 /\ tasks[i].status # "doing"
            THEN LET t == [tasks[i] EXCEPT !.status = "doing", !.owner = owner]
                 IN  [tasks |-> [tasks EXCEPT ![i] = t], db |-> _save(store, t),
                      ret |-> TRUE]
            ELSE [tasks |-> tasks, db |-> store, ret |-> FALSE]

\* TaskBoard.claim
claim(tasks, store, tid, owner) ==
    LET i == Get(tasks, tid)
    IN  IF i # 0 /\ tasks[i].status = "pending"
            THEN LET t == [tasks[i] EXCEPT !.status = "doing", !.owner = owner]
                 IN  [tasks |-> [tasks EXCEPT ![i] = t], db |-> _save(store, t),
                      ret |-> TRUE]
            ELSE [tasks |-> tasks, db |-> store, ret |-> FALSE]

\* complete with the test "not done yet" in place of "doing"
CompleteUnlessDone(tasks, store, tid) ==
    LET i == Get(tasks, tid)
    IN  IF i # 0 /\ tasks[i].status # "done"
            THEN LET t == [tasks[i] EXCEPT !.status = "done"]
                 IN  [tasks |-> [tasks EXCEPT ![i] = t], db |-> _save(store, t),
                      ret |-> TRUE]
            ELSE [tasks |-> tasks, db |-> store, ret |-> FALSE]

\* complete that gives the task back: the owner is emptied
CompleteClearsOwner(tasks, store, tid) ==
    LET i == Get(tasks, tid)
    IN  IF i # 0 /\ tasks[i].status = "doing"
            THEN LET t == [tasks[i] EXCEPT !.status = "done", !.owner = ""]
                 IN  [tasks |-> [tasks EXCEPT ![i] = t], db |-> _save(store, t),
                      ret |-> TRUE]
            ELSE [tasks |-> tasks, db |-> store, ret |-> FALSE]

\* TaskBoard.complete
complete(tasks, store, tid) ==
    LET i == Get(tasks, tid)
    IN  IF i # 0 /\ tasks[i].status = "doing"
            THEN LET t == [tasks[i] EXCEPT !.status = "done"]
                 IN  [tasks |-> [tasks EXCEPT ![i] = t], db |-> _save(store, t),
                      ret |-> TRUE]
            ELSE [tasks |-> tasks, db |-> store, ret |-> FALSE]

\* remove that refuses a finished task
RemoveUnlessDone(tasks, store, tid) ==
    IF tid \in Ids(tasks) /\ tasks[Get(tasks, tid)].status # "done"
        THEN [tasks |-> DictDel(tasks, tid), db |-> DeleteRow(store, tid),
              ret |-> TRUE]
        ELSE [tasks |-> tasks, db |-> store, ret |-> FALSE]

\* TaskBoard.remove
remove(tasks, store, tid) ==
    IF tid \in Ids(tasks)
        THEN [tasks |-> DictDel(tasks, tid), db |-> DeleteRow(store, tid),
              ret |-> TRUE]
        ELSE [tasks |-> tasks, db |-> store, ret |-> FALSE]

\* reassign without the test of the status
ReassignIgnoresStatus(tasks, store, tid, new_owner) ==
    LET i == Get(tasks, tid)
    IN  IF i # 0
            THEN LET t == [tasks[i] EXCEPT !.owner = new_owner, !.status = "doing"]
                 IN  [tasks |-> [tasks EXCEPT ![i] = t], db |-> _save(store, t),
                      ret |-> TRUE]
            ELSE [tasks |-> tasks, db |-> store, ret |-> FALSE]

\* reassign that sets the owner before it tests the status
ReassignOwnerFirst(tasks, store, tid, new_owner) ==
    LET i == Get(tasks, tid)
    IN  IF i = 0 THEN [tasks |-> tasks, db |-> store, ret |-> FALSE]
        ELSE LET t == [tasks[i] EXCEPT !.owner = new_owner]
             IN  IF t.status \in {"pending", "doing"}
                     THEN LET u == [t EXCEPT !.status = "doing"]
                          IN  [tasks |-> [tasks EXCEPT ![i] = u],
                               db |-> _save(store, u), ret |-> TRUE]
                     ELSE [tasks |-> [tasks EXCEPT ![i] = t], db |-> store,
                           ret |-> FALSE]

\* TaskBoard.reassign
reassign(tasks, store, tid, new_owner) ==
    LET i == Get(tasks, tid)
    IN  IF i # 0 /\ tasks[i].status \in {"pending", "doing"}
            THEN LET t == [tasks[i] EXCEPT !.owner = new_owner, !.status = "doing"]
                 IN  [tasks |-> [tasks EXCEPT ![i] = t], db |-> _save(store, t),
                      ret |-> TRUE]
            ELSE [tasks |-> tasks, db |-> store, ret |-> FALSE]

\* TaskBoard.has_pending_work
has_pending_work(tasks) ==
    \E i \in 1..Len(tasks) : tasks[i].status \in {"pending", "doing"}

\* TaskBoard.clear_done
clear_done(tasks, store) ==
    LET done_ids == {tasks[i].id : i \in {j \in 1..Len(tasks) : tasks[j].status = "done"}}
    IN  [tasks |-> SelectSeq(tasks, LAMBDA t : t.id \notin done_ids),
         db |-> {r \in store : r.id \notin done_ids}]

\* ------------------------------------------------------------- bookkeeping
\* What the model records about a run to state the properties; the program
\* keeps none of it.

NoId == <<>>

\* was: the status the task named by the call had when the call was made,
\* "" when the board had no such task
Call(op, s, tid, owner, was, ret) ==
    [op |-> op, sess |-> s, tid |-> tid, owner |-> owner, was |-> was,
     ret |-> ret]

StatusOf(tasks, tid) ==
    IF \E i \in 1..Len(tasks) : tasks[i].id = tid
        THEN LET i == CHOOSE i \in 1..Len(tasks) : tasks[i].id = tid
             IN  tasks[i].status
        ELSE ""

\* ------------------------------------------------------------- handler calls

\* The calls of on_message of session s1 that can be under way at once.
Handlers == {1, 2}

\* No call: the value of the locals of a call that has not begun.
\*   pc            "none", or where the call is waiting: "cmd" (the awaits of
\*                 lines 154-155), "streaming" (the stream of _cat_respond),
\*                 "one_shot" (chat_in_group), "round" (the awaits of lines
\*                 195 and 223), "report" (the await of line 226); "done"
\*                 when it has returned
\*   queue         the responders still to run, the one at work first
\*   round         the rounds of the work loop begun
\*   cat           the position in ALL_CATS of the persona at work
\*   proc          the persona's process: "live", "hung" or "none"
\*   said          the line the work loop ended with
NoRun ==
    [pc |-> "none", queue |-> <<>>, round |-> 0, idle_streak |-> 0,
     round_active |-> FALSE, cat |-> 0, proc |-> "none", said |-> ""]

\* What the model notes about the work loop of call 1; the program keeps
\* none of it.
\*   who, turns    the persona that has answered a claim of T-001 and then a
\*                 completion of it while every other persona skipped, and
\*                 how many of the two it has given; who is "" before the
\*                 claim and "off" when the loop did not go that way
\*   progress      whether a turn of the round has applied a task action
NothingNoted == [who |-> "off", turns |-> 0, progress |-> FALSE]

\* ------------------------------------------------------------- team and calls

\* TeamSession(...) as run constructs it, and the locals of run: pc names
\* the step run is about to take ("none": no run, "returned": run has
\* returned the session, "raised": run has raised), review and ui_review are
\* the replies of the reviewers.
TeamSession(pc) ==
    [pc |-> pc, branch_name |-> "", pr_url |-> <<>>, pr_number |-> 0,
     current_phase |-> "DISCUSS", review_round |-> 0, review |-> <<>>,
     ui_review |-> <<>>]

\* What the model notes about a run: the assignments to current_phase
\* (<<phase>>) and the calls of cat_speak (<<phase, persona>>) in the order in
\* which they are made, the calls of git_ops made and those that raised, each
\* with the phase in which it was made, and the replies of the code reviewer.
NoTrail == [steps |-> <<>>, made |-> {}, failed |-> {}, reviews |-> {}]

\* arg when nothing has been put to a function, got when none has been
\* called.
\*   called        the functions called on arg
\*   raised        whether one of them has raised
\*   text          what chat_in_group returned
\*   invoked       the commands chat_in_group has started a process with
\*   chunks, ends  what chat_stream_in_group yielded, and whether it came to
\*                 an end
\*   cats          the personas _pick_responders or process_response named
NoArg == [kind |-> "none"]

NoGot ==
    [called |-> {}, raised |-> FALSE, text |-> <<>>, invoked |-> <<>>,
     chunks |-> <<>>, ends |-> TRUE, cats |-> <<>>]

\* No run of the team, no function called on its own, no feature list, no
\* pull request to merge.
Untouched ==
    /\ session = TeamSession("none")
    /\ trail = NoTrail
    /\ arg = NoArg
    /\ got = NoGot
    /\ features = <<>>
    /\ pr_number = 0

\* The board, the replies and the handlers leave the team and the calls
\* alone.
Apart == UNCHANGED <<session, trail, arg, got, features, pr_number>>

\* ------------------------------------------------------------- Init

\* The module import has created the empty table; no session has started.
Init ==
    /\ db = {}
    /\ started = {}
    /\ task_board = [s \in Sessions |-> <<>>]
    /\ clock = 1
    /\ last = Call("import", "s1", NoId, "", "", FALSE)
    /\ issuedMax = [s \in Sessions |-> 0]
    /\ claimedBy = [s \in Sessions |-> <<>>]
    /\ reply = <<>>
    /\ did = "none"
    /\ actions = <<>>
    /\ shown = <<>>
    /\ chat_history = <<>>
    /\ cat_memories = <<>>
    /\ user_profile = <<>>
    /\ should_stop = FALSE
    /\ run = [h \in Handlers |-> NoRun]
    /\ noted = NothingNoted
    /\ Untouched

\* ------------------------------------------------------------- actions

\* app.on_start: a new chat session gets a TaskBoard of its own, loaded from
\* the table.  Starting s again stands for the next session in that slot
\* (a browser reload, a restart of the server).
on_start(s) ==
    /\ started' = started \cup {s}
    /\ task_board' = [task_board EXCEPT ![s] = _load(db)]
    /\ last' = Call("on_start", s, NoId, "", "", TRUE)
    /\ UNCHANGED <<db, clock>>

\* board.add(title), from _apply_actions (a persona's new-task marker) and
\* from _exec_user_task_cmd (the user's create command).  Every add opens a
\* connection and commits, which takes far longer than the resolution of
\* time.time(): two tasks never get the same created_at, and a later task
\* gets a later one.
CallAdd(s, title) ==
    /\ s \in started
    /\ clock <= MaxAdds
    /\ LET r == add(task_board[s], db, title, clock)
       IN  /\ task_board' = [task_board EXCEPT ![s] = r.tasks]
           /\ db' = r.db
           /\ last' = Call("add", s, r.ret.id, "", "", TRUE)
    /\ clock' = clock + 1
    /\ UNCHANGED started

\* board.claim(task_id, owner)
CallClaim(s, tid, owner) ==
    /\ s \in started
    /\ LET r == claim(task_board[s], db, tid, owner)
       IN  /\ task_board' = [task_board EXCEPT ![s] = r.tasks]
           /\ db' = r.db
           /\ last' = Call("claim", s, tid, owner, StatusOf(task_board[s], tid), r.ret)
    /\ UNCHANGED <<started, clock>>

\* board.complete(task_id)
CallComplete(s, tid) ==
    /\ s \in started
    /\ LET r == complete(task_board[s], db, tid)
       IN  /\ task_board' = [task_board EXCEPT ![s] = r.tasks]
           /\ db' = r.db
           /\ last' = Call("complete", s, tid, "", StatusOf(task_board[s], tid), r.ret)
    /\ UNCHANGED <<started, clock>>

\* board.remove(task_id)
CallRemove(s, tid) ==
    /\ s \in started
    /\ LET r == remove(task_board[s], db, tid)
       IN  /\ task_board' = [task_board EXCEPT ![s] = r.tasks]
           /\ db' = r.db
           /\ last' = Call("remove", s, tid, "", StatusOf(task_board[s], tid), r.ret)
    /\ UNCHANGED <<started, clock>>

\* board.reassign(task_id, new_owner)
CallReassign(s, tid, owner) ==
    /\ s \in started
    /\ LET r == reassign(task_board[s], db, tid, owner)
       IN  /\ task_board' = [task_board EXCEPT ![s] = r.tasks]
           /\ db' = r.db
           /\ last' = Call("reassign", s, tid, owner, StatusOf(task_board[s], tid), r.ret)
    /\ UNCHANGED <<started, clock>>

\* app._apply_actions: one task action of a persona's reply, the owner of a
\* claim being cat.name
_apply_actions(s) ==
    \/ \E title \in Titles : CallAdd(s, title)
    \/ \E tid \in TaskIdInputs, cat \in CatNames : CallClaim(s, tid, cat)
    \/ \E tid \in TaskIdInputs : CallComplete(s, tid)

\* app._exec_user_task_cmd: the user's create, remove or reassign command
_exec_user_task_cmd(s) ==
    \/ \E title \in Titles : CallAdd(s, title)
    \/ \E tid \in TaskIdInputs : CallRemove(s, tid)
    \/ \E tid \in TaskIdInputs, owner \in UserOwners : CallReassign(s, tid, owner)

\* board.clear_done(), the board's remaining mutating call; it returns
\* nothing, and the model records whether it found a done task to delete
CallClearDone(s) ==
    /\ s \in started
    /\ LET r == clear_done(task_board[s], db)
       IN  /\ task_board' = [task_board EXCEPT ![s] = r.tasks]
           /\ db' = r.db
    /\ last' = Call("clear_done", s, NoId, "", "",
                     \E i \in 1..Len(task_board[s]) : task_board[s][i].status = "done")
    /\ UNCHANGED <<started, clock>>

\* ------------------------------------------------------------- history
\* issuedMax and claimedBy are kept by the model, not by the program: they
\* follow the call just made (last').

\* a claim on tid by owner returned true
NoteClaim(cb, tid, owner) ==
    IF tid \in DOMAIN cb
        THEN [cb EXCEPT ![tid].wins = IF @ < 2 THEN @ + 1 ELSE @]
        ELSE (tid :> [first |-> owner, wins |-> 1, re |-> FALSE]) @@ cb

\* a reassign on tid returned true
NoteReassign(cb, tid) ==
    IF tid \in DOMAIN cb THEN [cb EXCEPT ![tid].re = TRUE] ELSE cb

\* only the tasks with these ids are on the board
NoteKept(cb, ids) == [x \in DOMAIN cb \cap ids |-> cb[x]]

Tracked ==
    LET c == last'
        s == c.sess
    IN  /\ issuedMax' = [issuedMax EXCEPT ![s] =
               CASE c.op = "on_start" -> 0
                 [] c.op = "add" /\ ParseId(c.tid) > @ -> ParseId(c.tid)
                 [] OTHER -> @]
        /\ claimedBy' = [claimedBy EXCEPT ![s] =
               CASE c.op = "add" -> NoteKept(@, Ids(task_board'[s]) \ {c.tid})
                 [] c.op = "claim" /\ c.ret -> NoteClaim(@, c.tid, c.owner)
                 [] c.op = "reassign" /\ c.ret -> NoteReassign(@, c.tid)
                 [] OTHER -> NoteKept(@, Ids(task_board'[s]))]

Untracked == UNCHANGED <<issuedMax, claimedBy>>

\* ------------------------------------------------------------- runs

\* The runs of the board leave the replies, the handlers, the team and the
\* calls alone.
Quiet == UNCHANGED <<reply, did, actions, shown, chat_history, cat_memories,
                     user_profile, should_stop, run, noted, session, trail,
                     arg, got, features, pr_number>>

\* One session at a time (a single-tenant deployment): one live board on the
\* table, and on_start is the reload or restart that constructs the next one.
Next ==
    \/ on_start("s1") /\ Untracked /\ Quiet
    \/ _apply_actions("s1") /\ Untracked /\ Quiet
    \/ _exec_user_task_cmd("s1") /\ Untracked /\ Quiet
    \/ CallClearDone("s1") /\ Untracked /\ Quiet

Spec == Init /\ [][Next]_vars

SmallBound == clock' <= MaxAddsSmall + 1

\* The same runs, with the history of every task kept.
NextHistory ==
    \/ on_start("s1") /\ Tracked /\ Quiet
    \/ _apply_actions("s1") /\ SmallBound /\ Tracked /\ Quiet
    \/ _exec_user_task_cmd("s1") /\ SmallBound /\ Tracked /\ Quiet
    \/ CallClearDone("s1") /\ Tracked /\ Quiet

SpecHistory == Init /\ [][NextHistory]_vars

\* Every session of the server process, each with its board, all on the one
\* table.  A session runs on_start once.  The calls are bounded to those that
\* name a task id the run can have issued.
SharedIdInputs == {FormatId(n) : n \in 1..MaxAddsSmall} \cup {NoId}

SharedBound == SmallBound /\ last'.tid \in SharedIdInputs

NextSessions ==
    \E s \in Sessions :
        \/ on_start(s) /\ s \notin started /\ Untracked /\ Quiet
        \/ _apply_actions(s) /\ SharedBound /\ Untracked /\ Quiet
        \/ _exec_user_task_cmd(s) /\ SharedBound /\ Untracked /\ Quiet
        \/ CallClearDone(s) /\ Untracked /\ Quiet

SpecSessions == Init /\ [][NextSessions]_vars

\* ------------------------------------------------------------- reply text
\* A reply is a sequence of characters.  The words the patterns of the code
\* name literally are one element each:
\*   "NEW_TASK" 新任务   "CLAIM" 认领   "COMPLETE" 完成   "IDLE" 空闲
\*   "SKIP" 跳过   "REMEMBER" 记住   "USER" 用户   "DISCUSS" 讨论   "ASK" 问
\*   "T-" the prefix of a task id   ":" and "::" the colons : and ：
\*   "NL" the newline
\* every other element is the character itself.

Space == {" ", "NL"}

Digit == {"0", "1", "2"}

Letter ==
    {"X", "o", "m", "k", "v"}
    \cup {"a", "c", "e", "h", "i", "l", "p", "r", "s", "t", "x", "A", "C", "K", "S", "T"}

Cjk == {"NEW_TASK", "CLAIM", "COMPLETE", "IDLE", "SKIP", "REMEMBER", "USER",
        "DISCUSS", "ASK"}

Chars == Space \cup Digit \cup Letter \cup Cjk \cup {"[", "]", ":", "::", "T-"}

\* the classes of the patterns: [：:]  \s  \d  \w  and . (all but the newline)
Colon == {":", "::"}

Word == Digit \cup Letter \cup Cjk

Dot == Chars \ {"NL"}

\* One element of a pattern: a character class and how often it is taken.
One(c) == [q |-> "one", cs |-> {c}]

OneOf(cs) == [q |-> "one", cs |-> cs]

\* cs* and cs+, greedy
Star(cs) == [q |-> "star", cs |-> cs]

Plus(cs) == [q |-> "plus", cs |-> cs]

\* cs+?, lazy
LazyPlus(cs) == [q |-> "lazy", cs |-> cs]

RECURSIVE Run(_, _, _)
\* how many characters of class cs stand at text[i], text[i+1], ...
Run(text, i, cs) ==
    IF i <= Len(text) /\ text[i] \in cs THEN 1 + Run(text, i + 1, cs) ELSE 0

RECURSIVE MatchFrom(_, _, _, _)
RECURSIVE Greedy(_, _, _, _, _, _)
RECURSIVE Lazy(_, _, _, _, _, _)
\* The backtracking match of the elements k.. of pat at position i of text:
\* <<>> when there is none, else the position where each of these elements
\* starts, followed by the position after the match.
MatchFrom(pat, k, text, i) ==
    IF k > Len(pat) THEN <<i>>
    ELSE LET e == pat[k]
         IN  CASE e.q = "one" ->
                    IF i <= Len(text) /\ text[i] \in e.cs
                        THEN LET r == MatchFrom(pat, k + 1, text, i + 1)
                             IN  IF r = <<>> THEN <<>> ELSE <<i>> \o r
                        ELSE <<>>
               [] e.q = "star" -> Greedy(pat, k, text, i, Run(text, i, e.cs), 0)
               [] e.q = "plus" -> Greedy(pat, k, text, i, Run(text, i, e.cs), 1)
               [] e.q = "lazy" -> Lazy(pat, k, text, i, 1, Run(text, i, e.cs))

\* element k takes n characters, and fewer if the rest does not match
Greedy(pat, k, text, i, n, least) ==
    IF n < least THEN <<>>
    ELSE LET r == MatchFrom(pat, k + 1, text, i + n)
         IN  IF r # <<>> THEN <<i>> \o r
             ELSE Greedy(pat, k, text, i, n - 1, least)

\* element k takes n characters, and more if the rest does not match
Lazy(pat, k, text, i, n, most) ==
    IF n > most THEN <<>>
    ELSE LET r == MatchFrom(pat, k + 1, text, i + n)
         IN  IF r # <<>> THEN <<i>> \o r
             ELSE Lazy(pat, k, text, i, n + 1, most)

RECURSIVE FirstAlt(_, _, _, _)
\* p1|p2|...: the match of the first alternative that matches at i
FirstAlt(alts, a, text, i) ==
    IF a > Len(alts) THEN <<>>
    ELSE LET r == MatchFrom(alts[a], 1, text, i)
         IN  IF r # <<>> THEN r ELSE FirstAlt(alts, a + 1, text, i)

RECURSIVE search(_, _, _)
\* re.search from position i on: the match at the leftmost position
search(alts, text, i) ==
    IF i > Len(text) THEN <<>>
    ELSE LET r == FirstAlt(alts, 1, text, i)
         IN  IF r # <<>> THEN r ELSE search(alts, text, i + 1)

RECURSIVE finditer(_, _, _)
\* re.finditer: the matches from left to right, none overlapping another.
\* No pattern of the code matches the empty text.
finditer(alts, text, i) ==
    LET r == search(alts, text, i)
    IN  IF r = <<>> THEN <<>> ELSE <<r>> \o finditer(alts, text, r[Len(r)])

RECURSIVE sub(_, _, _)
\* re.sub(pattern, '', text), from position i on
sub(alts, text, i) ==
    LET r == search(alts, text, i)
    IN  IF r = <<>> THEN SubSeq(text, i, Len(text))
        ELSE SubSeq(text, i, r[1] - 1) \o sub(alts, text, r[Len(r)])

\* m.group(..): what the elements from..to of the pattern matched
Group(text, m, from, to) == SubSeq(text, m[from], m[to + 1] - 1)

RECURSIVE lstrip(_)
lstrip(text) ==
    IF text # <<>> /\ Head(text) \in Space THEN lstrip(Tail(text)) ELSE text

RECURSIVE rstrip(_)
rstrip(text) ==
    IF text # <<>> /\ text[Len(text)] \in Space
        THEN rstrip(SubSeq(text, 1, Len(text) - 1))
        ELSE text

\* str.strip()
strip(text) == rstrip(lstrip(text))

\* needle in text
Contains(text, needle) ==
    \E i \in 1..(Len(text) - Len(needle) + 1) :
        SubSeq(text, i, i + Len(needle) - 1) = needle

\* the digit a digit character stands for
DigitValue(c) == CASE c = "0" -> 0 [] c = "1" -> 1 [] c = "2" -> 2

\* the id "T-<digits>" of a marker as the board keeps ids
IdOf(digits) == [i \in 1..Len(digits) |-> DigitValue(digits[i])]

\* ------------------------------------------------------------- task markers

\* r'\[新任务[：:]\s*(.+?)\]'
NewTaskPattern ==
    <<One("["), One("NEW_TASK"), OneOf(Colon), Star(Space), LazyPlus(Dot),
      One("]")>>

\* r'\[认领[：:]\s*(T-\d+)\]'
ClaimPattern ==
    <<One("["), One("CLAIM"), OneOf(Colon), Star(Space), One("T-"),
      Plus(Digit), One("]")>>

\* r'\[完成[：:]\s*(T-\d+)\]'
CompletePattern ==
    <<One("["), One("COMPLETE"), OneOf(Colon), Star(Space), One("T-"),
      Plus(Digit), One("]")>>

\* r'\[空闲\]'
IdlePattern == <<One("["), One("IDLE"), One("]")>>

\* r'\s*\[新任务[：:].+?\]'
StripNewTaskPattern ==
    <<Star(Space), One("["), One("NEW_TASK"), OneOf(Colon), LazyPlus(Dot),
      One("]")>>

\* r'\s*' in front of a pattern
Spaced(pat) == <<Star(Space)>> \o pat

\* taskboard.strip_task_markers
strip_task_markers(text) ==
    strip(sub(<<Spaced(IdlePattern)>>,
              sub(<<Spaced(CompletePattern)>>,
                  sub(<<Spaced(ClaimPattern)>>,
                      sub(<<StripNewTaskPattern>>, text, 1), 1), 1), 1))

\* the actions of lines 165-166: m.group(1).strip() of every match
CreateActions(text, found) ==
    [i \in 1..Len(found) |->
        [type |-> "create", title |-> strip(Group(text, found[i], 5, 5)),
         task_id |-> NoId]]

\* the actions of lines 167-170: m.group(1) of every match
IdActions(type, text, found) ==
    [i \in 1..Len(found) |->
        [type |-> type, title |-> <<>>,
         task_id |-> IdOf(Group(text, found[i], 6, 6))]]

\* parse_task_actions with the completes read before the claims
parse_completes_first(text) ==
    CreateActions(text, finditer(<<NewTaskPattern>>, text, 1))
    \o IdActions("complete", text, finditer(<<CompletePattern>>, text, 1))
    \o IdActions("claim", text, finditer(<<ClaimPattern>>, text, 1))
    \o (IF search(<<IdlePattern>>, text, 1) # <<>>
            THEN <<[type |-> "idle", title |-> <<>>, task_id |-> NoId]>>
            ELSE <<>>)

\* taskboard.parse_task_actions
parse_task_actions(text) ==
    CreateActions(text, finditer(<<NewTaskPattern>>, text, 1))
    \o IdActions("claim", text, finditer(<<ClaimPattern>>, text, 1))
    \o IdActions("complete", text, finditer(<<CompletePattern>>, text, 1))
    \o (IF search(<<IdlePattern>>, text, 1) # <<>>
            THEN <<[type |-> "idle", title |-> <<>>, task_id |-> NoId]>>
            ELSE <<>>)

\* ------------------------------------------------------------- personas

\* ALL_CATS, in its order: the cat_id of each persona
ALL_CATS == <<"arch", "stack", "pixel">>

\* cat.name (CAT_CONFIGS[cat_id]["name"])
NameOf(cat_id) ==
    CASE cat_id = "arch" -> "Arch"
      [] cat_id = "stack" -> "Stack"
      [] cat_id = "pixel" -> "Pixel"

\* "[跳过]"
SkipMarker == <<"[", "SKIP", "]">>

\* r'\[讨论\]|\[问:\w+\]'
DiscussOrAskPattern ==
    << <<One("["), One("DISCUSS"), One("]")>>,
       <<One("["), One("ASK"), One(":"), Plus(Word), One("]")>> >>

\* r'\[记住[：:]\s*(.+?)\]'
RememberPattern ==
    <<One("["), One("REMEMBER"), OneOf(Colon), Star(Space), LazyPlus(Dot),
      One("]")>>

\* r'\[用户[：:]\s*(\w+)[：:]\s*(.+?)\]'
UserInfoPattern ==
    <<One("["), One("USER"), OneOf(Colon), Star(Space), Plus(Word),
      OneOf(Colon), Star(Space), LazyPlus(Dot), One("]")>>

\* re.findall with one group: what the group matched, for every match
FoundMemories(text, found) ==
    [i \in 1..Len(found) |-> Group(text, found[i], 5, 5)]

\* re.findall with two groups: the pairs (key, value)
FoundUserInfo(text, found) ==
    [i \in 1..Len(found) |->
        [key |-> Group(text, found[i], 5, 5), value |-> Group(text, found[i], 8, 8)]]

\* cats._extract_memories: the cleaned text and the memories
_extract_memories(text) ==
    [clean_text |-> strip(sub(<<Spaced(RememberPattern)>>, text, 1)),
     memories |-> FoundMemories(text, finditer(<<RememberPattern>>, text, 1))]

\* memory.add_cat_memory(cat_id, memory, importance): one more row
add_cat_memory(rows, cat_id, memory, importance) ==
    Append(rows, [cat_id |-> cat_id, memory |-> memory,
                  importance |-> importance])

RECURSIVE AddMemories(_, _, _, _)
\* for mem in memories: add_cat_memory(self.cat_id, mem.strip(), importance=2)
AddMemories(rows, cat_id, memories, i) ==
    IF i > Len(memories) THEN rows
    ELSE AddMemories(add_cat_memory(rows, cat_id, strip(memories[i]), 2),
                     cat_id, memories, i + 1)

\* an INSERT OR IGNORE: the first value of a key stays
set_user_info_once(profile, key, value) ==
    [x \in DOMAIN profile \cup {key} |->
        IF x \in DOMAIN profile THEN profile[x] ELSE value]

\* memory.set_user_info(key, value): INSERT OR REPLACE on the key
set_user_info(profile, key, value) ==
    [x \in DOMAIN profile \cup {key} |-> IF x = key THEN value ELSE profile[x]]

RECURSIVE SetUserInfos(_, _, _)
\* for key, value in user_info: set_user_info(key.strip(), value.strip())
SetUserInfos(profile, user_info, i) ==
    IF i > Len(user_info) THEN profile
    ELSE SetUserInfos(set_user_info(profile, strip(user_info[i].key),
                                    strip(user_info[i].value)),
                      user_info, i + 1)

\* process_response, lines 372-384: mem is what _extract_memories returned
Extracted(cat_id, mem, memories, profile) ==
    [clean |-> strip(sub(<<UserInfoPattern>>, mem.clean_text, 1)),
     skip |-> FALSE,
     cat_memories |-> AddMemories(memories, cat_id, mem.memories, 1),
     user_profile |->
         SetUserInfos(profile,
                      FoundUserInfo(mem.clean_text,
                                    finditer(<<UserInfoPattern>>, mem.clean_text, 1)),
                      1)]

\* CatAgent.process_response: the cleaned text, whether to skip, and the
\* tables cat_memories and user_profile after it.  The function of cats.py
\* returns a third value, the personas asked with [问:...], which
\* _cat_respond of app.py does not take (it unpacks two values, line 272,
\* and passes the stream a task_board_text that cats.py does not accept);
\* the model follows the two bodies and leaves the third value out.
process_response(cat_id, response, memories, profile) ==
    IF response = <<>> \/ Contains(response, SkipMarker)
                       \/ strip(response) = <<"SKIP">>
        THEN [clean |-> <<>>, skip |-> TRUE, cat_memories |-> memories,
              user_profile |-> profile]
    ELSE Extracted(cat_id,
                   _extract_memories(strip(sub(DiscussOrAskPattern, response, 1))),
                   memories, profile)

\* memory.add_message(role, content, session_id): one more row
add_message(rows, role, content, session_id) ==
    Append(rows, [role |-> role, content |-> content,
                  session_id |-> session_id])

\* _apply_actions, lines 295-303: the call of the board action a makes; ret
\* is whether the action goes into the log
apply_action(a, tasks, store, cat_name, now) ==
    CASE a.type = "create" ->
             [add(tasks, store, a.title, now) EXCEPT !.ret = TRUE]
      [] a.type = "claim" -> claim(tasks, store, a.task_id, cat_name)
      [] a.type = "complete" -> complete(tasks, store, a.task_id)
      [] OTHER -> [tasks |-> tasks, db |-> store, ret |-> FALSE]

\* the log with the part of action a in front
Logged(a, r, rest) ==
    [rest EXCEPT !.parts = (IF r.ret THEN <<[type |-> a.type]>> ELSE <<>>) \o @]

RECURSIVE apply_actions(_, _, _, _, _, _)
RECURSIVE ApplyRest(_, _, _, _, _)
\* app._apply_actions(actions, board, cat_name), from the i-th action on: the
\* board and the table after it, the clock, and the parts of the log
apply_actions(acts, i, tasks, store, cat_name, now) ==
    IF i > Len(acts)
        THEN [tasks |-> tasks, db |-> store, clock |-> now, parts |-> <<>>]
        ELSE ApplyRest(acts, i, cat_name, now,
                       apply_action(acts[i], tasks, store, cat_name, now))

\* r is what the action i made of the board; a task made has read the clock
ApplyRest(acts, i, cat_name, now, r) ==
    Logged(acts[i], r,
           apply_actions(acts, i + 1, r.tasks, r.db, cat_name,
                         IF acts[i].type = "create" THEN now + 1 ELSE now))

\* _cat_respond, lines 276-288: the message is emptied, or shown and stored
Answer(cat_id, session_id, chat, applied, p, silent, clean) ==
    [tasks |-> applied.tasks, db |-> applied.db, clock |-> applied.clock,
     action_log |-> applied.parts,
     cat_memories |-> p.cat_memories, user_profile |-> p.user_profile,
     chat_history |-> IF silent THEN chat
                      ELSE add_message(chat, NameOf(cat_id), clean, session_id),
     resp |-> IF silent THEN <<>> ELSE clean]

\* _cat_respond, lines 273-276: clean is what process_response returned
Cleaned(cat_id, session_id, chat, applied, p, is_idle, clean) ==
    Answer(cat_id, session_id, chat, applied, p,
           p.skip \/ is_idle \/ strip(clean) = <<>>, clean)

\* _cat_respond, lines 265-274: acts is what parse_task_actions returned, p
\* what process_response returned
Parsed(cat_id, session_id, tasks, store, now, chat, acts, p) ==
    Cleaned(cat_id, session_id, chat,
            apply_actions(acts, 1, tasks, store, NameOf(cat_id), now), p,
            \E i \in 1..Len(acts) : acts[i].type = "idle",
            IF p.clean # <<>> THEN strip_task_markers(p.clean) ELSE p.clean)

\* app._cat_respond from the end of the stream on (lines 264-288): full is
\* the text the persona's process produced.  resp is the value returned,
\* <<>> for None; it is also the content the message is left with.
_cat_respond(cat_id, session_id, full, tasks, store, now, chat, memories, profile) ==
    Parsed(cat_id, session_id, tasks, store, now, chat,
           parse_task_actions(full),
           process_response(cat_id, full, memories, profile))

\* ------------------------------------------------------------- one reply
\* The functions of the marker protocol applied to one reply.  A reply is
\* put together from up to MaxPieces pieces: whole markers, words, blanks,
\* and two fragments of a marker.

\*   "[空闲"  "]"
\*   "[新任务: X]"  "[新任务:\nX]"  "[认领:T-001]"  "[完成： T-001]"
\*   "[空闲]"  "[跳过]"  "[记住:m]"  "[用户:k:v]"
\*   "o"  " "  "跳过"
Pieces ==
    {<<"[", "IDLE">>, <<"]">>,
     <<"[", "NEW_TASK", ":", " ", "X", "]">>,
     <<"[", "NEW_TASK", ":", "NL", "X", "]">>,
     <<"[", "CLAIM", ":", "T-", "0", "0", "1", "]">>,
     <<"[", "COMPLETE", "::", " ", "T-", "0", "0", "1", "]">>,
     <<"[", "IDLE", "]">>, SkipMarker, <<"[", "REMEMBER", ":", "m", "]">>,
     <<"[", "USER", ":", "k", ":", "v", "]">>,
     <<"o">>, <<" ">>, <<"SKIP">>}

RECURSIVE PieceLists(_)
\* the lists of at most n pieces
PieceLists(n) ==
    IF n = 0 THEN {<<>>}
    ELSE LET shorter == PieceLists(n - 1)
         IN  shorter \cup {Append(l, p) : l \in shorter, p \in Pieces}

RECURSIVE Text(_)
\* the text a list of pieces makes
Text(pieces) == IF pieces = <<>> THEN <<>> ELSE Head(pieces) \o Text(Tail(pieces))

\* the board of session s1 when the reply arrives: the user has added T-001
OneTask == <<Task(FormatId(1), <<"X">>, 1)>>

\* A persona's process has produced a reply; session s1 has the pending
\* task T-001 on its board; the tables of memory.py are empty.
InitReply ==
    /\ reply \in PieceLists(MaxPieces)
    /\ did = "reply"
    /\ actions = <<>>
    /\ shown = <<>>
    /\ db = {OneTask[1]}
    /\ started = {"s1"}
    /\ task_board = [s \in Sessions |-> IF s = "s1" THEN OneTask ELSE <<>>]
    /\ clock = 2
    /\ last = Call("add", "s1", FormatId(1), "", "", TRUE)
    /\ issuedMax = [s \in Sessions |-> 0]
    /\ claimedBy = [s \in Sessions |-> <<>>]
    /\ chat_history = <<>>
    /\ cat_memories = <<>>
    /\ user_profile = <<>>
    /\ should_stop = FALSE
    /\ run = [h \in Handlers |-> NoRun]
    /\ noted = NothingNoted
    /\ Untouched

\* actions = parse_task_actions(full)
CallParse ==
    /\ did = "reply"
    /\ did' = "parse"
    /\ actions' = parse_task_actions(Text(reply))
    /\ UNCHANGED <<reply, shown, db, started, task_board, clock, last,
                   issuedMax, claimedBy, chat_history, cat_memories,
                   user_profile, should_stop, run, noted>>

\* strip_task_markers(full)
CallStrip ==
    /\ did = "reply"
    /\ did' = "strip"
    /\ shown' = strip_task_markers(Text(reply))
    /\ UNCHANGED <<reply, actions, db, started, task_board, clock, last,
                   issuedMax, claimedBy, chat_history, cat_memories,
                   user_profile, should_stop, run, noted>>

\* strip_task_markers applied to what it returned
CallStripAgain ==
    /\ did = "strip"
    /\ did' = "strip_again"
    /\ shown' = strip_task_markers(shown)
    /\ UNCHANGED <<reply, actions, db, started, task_board, clock, last,
                   issuedMax, claimedBy, chat_history, cat_memories,
                   user_profile, should_stop, run, noted>>

\* the board, the tables and the message after _cat_respond has returned t
Responded(t) ==
    /\ task_board' = [task_board EXCEPT !["s1"] = t.tasks]
    /\ db' = t.db
    /\ clock' = t.clock
    /\ chat_history' = t.chat_history
    /\ cat_memories' = t.cat_memories
    /\ user_profile' = t.user_profile
    /\ shown' = t.resp

\* _cat_respond(cat, session_id, board) from the end of the stream on, the
\* stream having produced the reply
Respond(cat_id) ==
    /\ did = "reply"
    /\ did' = "respond"
    /\ Responded(_cat_respond(cat_id, "s1", Text(reply), task_board["s1"], db,
                              clock, chat_history, cat_memories, user_profile))
    /\ UNCHANGED <<reply, actions, started, last, issuedMax, claimedBy,
                   should_stop, run, noted>>

NextReply ==
    \/ CallParse /\ Apart
    \/ CallStrip /\ Apart
    \/ CallStripAgain /\ Apart
    \/ \E i \in 1..Len(ALL_CATS) : Respond(ALL_CATS[i]) /\ Apart

SpecReply == InitReply /\ [][NextReply]_vars

\* ------------------------------------------------------------- work loop

\* _work_loop, lines 200-203: whether the next round begins
round_may_start(stop, tasks) == ~stop /\ has_pending_work(tasks)

\* the test of lines 207-210 without the look at the board
TurnUnlessStopped(stop, tasks) == ~stop

\* _work_loop, lines 207-210: whether the next persona is invoked
turn_may_start(stop, tasks) == ~stop /\ has_pending_work(tasks)

\* _work_loop, lines 229-234: the line the loop ends with
termination_message(stop, tasks) ==
    IF stop THEN "paused"
    ELSE IF has_pending_work(tasks) THEN "limit" ELSE "all done"

\* the end of a round that breaks at the first idle round
EndRoundAtFirstIdle(r) ==
    IF r.round_active THEN [r EXCEPT !.idle_streak = 0, !.pc = "round"]
    ELSE [r EXCEPT !.idle_streak = @ + 1, !.pc = "report"]

\* _work_loop, lines 216-223: the end of a round
end_round(r) ==
    IF r.round_active THEN [r EXCEPT !.idle_streak = 0, !.pc = "round"]
    ELSE IF r.idle_streak + 1 >= IdleRounds
        THEN [r EXCEPT !.idle_streak = @ + 1, !.pc = "report"]
        ELSE [r EXCEPT !.idle_streak = @ + 1, !.pc = "round"]

\* _work_loop, lines 206-214, from the return of _cat_respond to the next
\* await: the next persona is invoked or the round ends
after_turn(r, resp, stop, tasks) ==
    IF r.cat < Len(ALL_CATS) /\ turn_may_start(stop, tasks)
        THEN [r EXCEPT !.round_active = @ \/ resp # <<>>, !.cat = @ + 1,
                       !.pc = "streaming", !.proc = "live"]
        ELSE end_round([r EXCEPT !.round_active = @ \/ resp # <<>>,
                                 !.proc = "none"])

\* _work_loop up to its first await (line 195)
enter_work_loop == [NoRun EXCEPT !.pc = "round"]

\* on_message, lines 167-171, from the return of _cat_respond to the next
\* await: the next responder is invoked, or the work loop is entered
after_response(r, tasks) ==
    IF Len(r.queue) > 1
        THEN [r EXCEPT !.queue = Tail(@), !.pc = "streaming", !.proc = "live"]
    ELSE IF has_pending_work(tasks) THEN enter_work_loop
    ELSE [NoRun EXCEPT !.pc = "done"]

\* _pick_responders: one persona named in the text, or all in any order
Responders ==
    {<<ALL_CATS[i]>> : i \in 1..Len(ALL_CATS)}
    \cup {<<ALL_CATS[p[1]], ALL_CATS[p[2]], ALL_CATS[p[3]]>> :
             p \in {q \in [1..3 -> 1..3] : \A i, j \in 1..3 : i # j => q[i] # q[j]}}

\* The replies of a persona's process in the runs of the work loop:
\* "[跳过]"  "[空闲]"  "o"  "[认领:T-001]"  "[完成:T-001]"
ClaimReply == <<"[", "CLAIM", ":", "T-", "0", "0", "1", "]">>

CompleteReply == <<"[", "COMPLETE", ":", "T-", "0", "0", "1", "]">>

WorkReplies == {SkipMarker, <<"[", "IDLE", "]">>, <<"o">>, ClaimReply, CompleteReply}

\* the stream of a process that wrote a blank and nothing else
BlankReply == <<" ">>

\* f"（{self.name}想了太久，超时了喵...）"
TimeoutMessage == <<"o", "o">>

\* The tables of memory.py are written by these calls and read by none of
\* them: the runs of the handlers leave them out.
Unkept == UNCHANGED <<reply, did, actions, shown, chat_history, cat_memories,
                      user_profile>>

\* on_message, lines 163-168: a message that is neither a command nor a task
\* command; the first responder is invoked
on_message(h, responders) ==
    /\ run[h].pc \in {"none", "done"}
    /\ should_stop' = FALSE
    /\ run' = [run EXCEPT ![h] = [NoRun EXCEPT !.pc = "streaming",
                                               !.queue = responders,
                                               !.proc = "live"]]
    /\ UNCHANGED <<db, started, task_board, clock, last, issuedMax, claimedBy>>
    /\ Unkept

\* on_message, lines 151-155: the user's task command "加任务：X"
on_task_command(h) ==
    /\ run[h].pc \in {"none", "done"}
    /\ \E title \in Titles : CallAdd("s1", title)
    /\ clock' <= MaxWorkTasks + 1
    /\ run' = [run EXCEPT ![h] = [NoRun EXCEPT !.pc = "cmd"]]
    /\ UNCHANGED <<should_stop, issuedMax, claimedBy>>
    /\ Unkept

\* on_message, lines 157-161
after_task_command(h) ==
    /\ run[h].pc = "cmd"
    /\ IF has_pending_work(task_board["s1"])
           THEN /\ should_stop' = FALSE
                /\ run' = [run EXCEPT ![h] = enter_work_loop]
           ELSE /\ run' = [run EXCEPT ![h] = [NoRun EXCEPT !.pc = "done"]]
                /\ UNCHANGED should_stop
    /\ UNCHANGED <<db, started, task_board, clock, last, issuedMax, claimedBy>>
    /\ Unkept

\* on_stop, and on_message with the text "/stop" (lines 109-111, 122-125)
on_stop ==
    /\ should_stop' = TRUE
    /\ UNCHANGED <<db, started, task_board, clock, last, issuedMax, claimedBy,
                   run>>
    /\ Unkept

\* _work_loop, lines 199-212: the top of a round, up to the invocation of the
\* first persona
round_top(h) ==
    /\ run[h].pc = "round"
    /\ run' = [run EXCEPT ![h] =
           IF @.round < MAX_WORK_ROUNDS
              /\ round_may_start(should_stop, task_board["s1"])
              /\ turn_may_start(should_stop, task_board["s1"])
               THEN [@ EXCEPT !.round = @ + 1, !.round_active = FALSE,
                              !.cat = 1, !.pc = "streaming", !.proc = "live"]
               ELSE [@ EXCEPT !.pc = "report"]]
    /\ UNCHANGED <<db, started, task_board, clock, last, issuedMax, claimedBy,
                   should_stop>>
    /\ Unkept

\* the persona whose turn it is in call h
AtWork(h) ==
    IF run[h].queue # <<>> THEN Head(run[h].queue) ELSE ALL_CATS[run[h].cat]

\* the board and the call h after _cat_respond has returned t: the caller
\* goes on to its next await
Returned(h, t) ==
    /\ task_board' = [task_board EXCEPT !["s1"] = t.tasks]
    /\ db' = t.db
    /\ clock' = t.clock
    /\ run' = [run EXCEPT ![h] =
           IF @.queue # <<>> THEN after_response(@, t.tasks)
           ELSE after_turn(@, t.resp, should_stop, t.tasks)]

\* _cat_respond, lines 264-288, and its caller up to the next await
turn(h, full) ==
    /\ Returned(h, _cat_respond(AtWork(h), "s1", full, task_board["s1"], db,
                                clock, chat_history, cat_memories, user_profile))
    /\ UNCHANGED <<started, last, issuedMax, claimedBy, should_stop>>
    /\ Unkept

\* _cat_respond, lines 248-260: the stream has ended with the text full; a
\* blank text makes _cat_respond call chat_in_group
stream_ends(h, full) ==
    /\ run[h].pc = "streaming"
    /\ run[h].proc = "live"
    /\ IF strip(full) = <<>>
           THEN /\ run' = [run EXCEPT ![h].pc = "one_shot", ![h].proc = "live"]
                /\ UNCHANGED <<db, started, task_board, clock, last, issuedMax,
                               claimedBy, should_stop>>
                /\ Unkept
           ELSE turn(h, full)

\* chat_in_group, lines 403-411: the process has ended with the output out
one_shot_ends(h, out) ==
    /\ run[h].pc = "one_shot"
    /\ run[h].proc = "live"
    /\ turn(h, out)

\* the await of call h is that of asyncio.wait_for(process.communicate(),
\* timeout=CLI_TIMEOUT) of chat_in_group (lines 403-406); the stream of
\* chat_stream_in_group is read with no timeout (line 445)
timeout_pending(h) == run[h].pc = "one_shot"

\* chat_in_group, lines 412-413: wait_for has run into CLI_TIMEOUT
one_shot_timeout(h) ==
    /\ timeout_pending(h)
    /\ turn(h, TimeoutMessage)

\* The persona's process stops: it writes nothing more and does not exit.
process_hangs(h) ==
    /\ run[h].pc \in {"streaming", "one_shot"}
    /\ run[h].proc = "live"
    /\ run' = [run EXCEPT ![h].proc = "hung"]
    /\ UNCHANGED <<db, started, task_board, clock, last, issuedMax, claimedBy,
                   should_stop>>
    /\ Unkept

\* _work_loop, lines 226-234: the line the loop ends with
report(h) ==
    /\ run[h].pc = "report"
    /\ run' = [run EXCEPT ![h] =
           [NoRun EXCEPT !.pc = "done", !.round = run[h].round,
                         !.idle_streak = run[h].idle_streak,
                         !.said = termination_message(should_stop,
                                                      task_board["s1"])]]
    /\ UNCHANGED <<db, started, task_board, clock, last, issuedMax, claimedBy,
                   should_stop>>
    /\ Unkept

\* ------------------------------------------------------------- notes
\* noted follows the work loop of call 1.

\* a new call of on_message
NoteNew == noted' = NothingNoted

\* the stop flag is set: the loop is not left to the personas
NoteStop == noted' = [noted EXCEPT !.who = "off", !.turns = 0]

\* a round begins or the loop ends; the first round begins the watch when
\* the board holds the pending task T-001 and nothing else
NoteRound ==
    LET b == task_board["s1"]
        first == run[1].round = 0 /\ run'[1].pc = "streaming"
        one == Len(b) = 1 /\ b[1].id = FormatId(1) /\ b[1].status = "pending"
    IN  noted' = IF first
                     THEN [who |-> IF one THEN "" ELSE "off", turns |-> 0,
                           progress |-> FALSE]
                     ELSE [noted EXCEPT !.progress = FALSE]

\* the persona c has answered full; n is what the answer makes of the watch
Watched(c, full) ==
    CASE noted.who = "off" -> noted
      [] full = SkipMarker /\ c # noted.who -> noted
      [] full = ClaimReply /\ noted.who = "" -> [noted EXCEPT !.who = c, !.turns = 1]
      [] full = CompleteReply /\ noted.who = c /\ noted.turns = 1 ->
             [noted EXCEPT !.turns = 2]
      [] OTHER -> [noted EXCEPT !.who = "off", !.turns = 0]

\* the watch ends with a round in which no persona has claimed T-001
NoteAnswer(n, t) ==
    noted' = [who |-> IF n.who = "" /\ run'[1].pc \notin {"streaming", "one_shot"}
                          THEN "off" ELSE n.who,
              turns |-> n.turns,
              progress |-> noted.progress \/ t.action_log # <<>>]

\* the persona at work has answered full
NoteTurn(full) ==
    IF run[1].queue # <<>> \/ (run[1].pc = "streaming" /\ strip(full) = <<>>)
        THEN UNCHANGED noted
        ELSE NoteAnswer(Watched(AtWork(1), full),
                        _cat_respond(AtWork(1), "s1", full, task_board["s1"], db,
                                     clock, chat_history, cat_memories,
                                     user_profile))

\* ------------------------------------------------------------- runs of the handlers

\* Session s1 after on_start on an empty table.
InitWork ==
    /\ db = {}
    /\ started = {"s1"}
    /\ task_board = [s \in Sessions |-> <<>>]
    /\ clock = 1
    /\ last = Call("on_start", "s1", NoId, "", "", TRUE)
    /\ issuedMax = [s \in Sessions |-> 0]
    /\ claimedBy = [s \in Sessions |-> <<>>]
    /\ reply = <<>>
    /\ did = "none"
    /\ actions = <<>>
    /\ shown = <<>>
    /\ chat_history = <<>>
    /\ cat_memories = <<>>
    /\ user_profile = <<>>
    /\ should_stop = FALSE
    /\ run = [h \in Handlers |-> NoRun]
    /\ noted = NothingNoted
    /\ Untouched

\* the steps of call 1 that wait for nothing but the event loop, the
\* persona's process or the timer of wait_for
HandlerStep ==
    \/ after_task_command(1) /\ UNCHANGED noted /\ Apart
    \/ round_top(1) /\ NoteRound /\ Apart
    \/ \E full \in WorkReplies \cup {BlankReply} :
           stream_ends(1, full) /\ NoteTurn(full) /\ Apart
    \/ \E out \in WorkReplies : one_shot_ends(1, out) /\ NoteTurn(out) /\ Apart
    \/ one_shot_timeout(1) /\ NoteTurn(TimeoutMessage) /\ Apart
    \/ report(1) /\ UNCHANGED noted /\ Apart

\* One call of on_message at a time: the user writes the next message when
\* the call before has returned, and can stop the personas at any time.
NextWork ==
    \/ \E responders \in Responders : on_message(1, responders) /\ NoteNew /\ Apart
    \/ on_task_command(1) /\ NoteNew /\ Apart
    \/ on_stop /\ NoteStop /\ Apart
    \/ process_hangs(1) /\ UNCHANGED noted /\ Apart
    \/ HandlerStep

SpecWork == InitWork /\ [][NextWork]_vars

\* Two calls of on_message under way at once: the user writes while the
\* personas are at work (the text "/stop" is such a message).  The messages
\* name one persona each.
NextConcurrent ==
    \E h \in Handlers :
        \/ \E c \in {"arch", "pixel"} : on_message(h, <<c>>) /\ UNCHANGED noted /\ Apart
        \/ on_task_command(h) /\ UNCHANGED noted /\ Apart
        \/ after_task_command(h) /\ UNCHANGED noted /\ Apart
        \/ on_stop /\ UNCHANGED noted /\ Apart
        \/ round_top(h) /\ UNCHANGED noted /\ Apart
        \/ \E full \in {SkipMarker, ClaimReply, CompleteReply} :
               stream_ends(h, full) /\ UNCHANGED noted /\ Apart
        \/ report(h) /\ UNCHANGED noted /\ Apart

SpecConcurrent == InitWork /\ [][NextConcurrent]_vars

\* ------------------------------------------------------------- team run
\* MeowDevTeam.run: the personas taken through the phases, with the calls of
\* git_ops around them.  The personas are named by their ids, the phases by
\* the names of the members of Phase.  A reply of a persona is a sequence of
\* characters as above.

\* config.MAX_REVIEW_ROUNDS
MAX_REVIEW_ROUNDS == 3

\* str.upper() on the letters that occur in the texts of the model
upper(text) ==
    LET lo == <<"a", "c", "e", "h", "i", "k", "l", "o", "p", "r", "s", "t", "u", "x">>
        up == <<"A", "C", "E", "H", "I", "K", "L", "O", "P", "R", "S", "T", "U", "X">>
    IN  [i \in 1..Len(text) |->
            IF \E k \in 1..Len(lo) : lo[k] = text[i]
                THEN up[CHOOSE k \in 1..Len(lo) : lo[k] = text[i]]
                ELSE text[i]]

\* str.lower() on the same letters
lower(text) ==
    LET lo == <<"a", "c", "e", "h", "i", "k", "l", "o", "p", "r", "s", "t", "u", "x">>
        up == <<"A", "C", "E", "H", "I", "K", "L", "O", "P", "R", "S", "T", "U", "X">>
    IN  [i \in 1..Len(text) |->
            IF \E k \in 1..Len(up) : up[k] = text[i]
                THEN lo[CHOOSE k \in 1..Len(up) : up[k] = text[i]]
                ELSE text[i]]

\* a review that passes on PASS in capitals only
PassesInCapitals(review) == Contains(review, <<"P", "A", "S", "S">>)

\* "PASS" in review.upper()
passes(review) == Contains(upper(review), <<"P", "A", "S", "S">>)

\* git_ops.create_pr once gh has exited with 0 and written out: the url and
\* the number after /pull/ in it, 0 when there is none
create_pr(out) ==
    LET url == strip(out)
        m == search(<< <<One("/"), One("p"), One("u"), One("l"), One("l"),
                         One("/"), Plus(Digit)>> >>, url, 1)
    IN  [pr_url |-> url,
         pr_number |-> IF m # <<>> THEN ParseId(IdOf(Group(url, m, 7, 7)))
                                   ELSE 0]

\* The exceptions the calls of git_ops raise: RuntimeError (a command has
\* exited with a code other than 0), asyncio.TimeoutError (wait_for in _run),
\* FileNotFoundError (no git or gh to run).  Exception is the class the
\* handlers of run name: these are its subclasses.
Raised == {"RuntimeError", "TimeoutError", "FileNotFoundError"}

\* a handler that names RuntimeError and nothing else
OnlyRuntimeError == {"RuntimeError"}

Exception == {"RuntimeError", "TimeoutError", "FileNotFoundError", "PermissionError"}

\* The calls of git_ops in a try block, made in order up to the first that
\* raises; bad are the calls that raise when they are made, exc is what they
\* raise.  escapes: the handler of the block does not catch it.
Tried(calls, bad, exc) ==
    LET stop == {i \in 1..Len(calls) : calls[i] \in bad}
        last_made == IF stop = {} THEN Len(calls)
                                  ELSE CHOOSE i \in stop : \A j \in stop : i <= j
    IN  [made |-> {calls[i] : i \in 1..last_made},
         failed |-> {calls[i] : i \in stop \cap {last_made}},
         escapes |-> stop # {} /\ exc \notin Exception]

\* where run goes after the try blocks of a step: on to next, or out of run
\* with the exception that has escaped
Goes(tries, next) == IF \E t \in tries : t.escapes THEN "raised" ELSE next

\* the trail after a step of run: steps begins with the assignment to
\* current_phase, tries are the try blocks of the step
Trailed(steps, tries) ==
    [steps |-> trail.steps \o steps,
     made |-> trail.made \cup {<<steps[1][1], c>> : c \in UNION {t.made : t \in tries}},
     failed |-> trail.failed
                \cup {<<steps[1][1], c>> : c \in UNION {t.failed : t \in tries}},
     reviews |-> trail.reviews]

\* a phase in which the personas speak in turn and nothing else happens:
\* DISCUSS (lines 140-159), ANALYZE (164-175), DESIGN (180-191), CODE (213-219)
talk(phase, cats, next) ==
    /\ session.pc = phase
    /\ session' = [session EXCEPT !.pc = next, !.current_phase = phase]
    /\ trail' = Trailed(<< <<phase>> >> \o [i \in 1..Len(cats) |-> <<phase, cats[i]>>],
                        {})

\* lines 196-208: the repository and the branch
git_branch ==
    /\ session.pc = "GIT_BRANCH"
    /\ \E bad \in SUBSET {"setup_repo_for_pr", "create_branch"}, exc \in Raised :
          LET t == Tried(<<"setup_repo_for_pr", "create_branch">>, bad, exc)
          IN  /\ session' = [session EXCEPT
                     !.pc = Goes({t}, "CODE"),
                     !.current_phase = "GIT_BRANCH",
                     !.branch_name = IF t.failed # {} THEN @ ELSE "meow/feature-1"]
              /\ trail' = Trailed(<< <<"GIT_BRANCH">> >>, {t})

\* what gh pr create writes when it exits with 0: the url of the pull request
PrOutputs ==
    {<<"h", "/", "p", "u", "l", "l", "/", "1", "NL">>,
     <<"h", "/", "p", "u", "l", "l", "/", "1", "2", "NL">>}

\* git_pr with the session given the pull request whatever the calls did
git_pr_unguarded ==
    /\ session.pc = "GIT_PR"
    /\ \E bad \in SUBSET {"commit_all", "push_branch", "create_pr"},
          exc \in Raised, out \in PrOutputs :
          LET tries == IF session.branch_name # ""
                           THEN {Tried(<<"commit_all", "push_branch", "create_pr">>,
                                       bad, exc)}
                           ELSE {}
          IN  /\ session' = [session EXCEPT
                     !.pc = Goes(tries, IF MAX_REVIEW_ROUNDS >= 1
                                            THEN "REVIEW_CODE" ELSE "REVIEW_UI"),
                     !.current_phase = "GIT_PR",
                     !.pr_url = create_pr(out).pr_url,
                     !.pr_number = create_pr(out).pr_number]
              /\ trail' = Trailed(<< <<"GIT_PR">> >>, tries)

\* lines 224-243: commit, push and pull request
git_pr ==
    /\ session.pc = "GIT_PR"
    /\ \E bad \in SUBSET {"commit_all", "push_branch", "create_pr"},
          exc \in Raised, out \in PrOutputs :
          LET tries == IF session.branch_name # ""
                           THEN {Tried(<<"commit_all", "push_branch", "create_pr">>,
                                       bad, exc)}
                           ELSE {}
              made == \E t \in tries : t.failed = {}
          IN  /\ session' = [session EXCEPT
                     !.pc = Goes(tries, IF MAX_REVIEW_ROUNDS >= 1
                                            THEN "REVIEW_CODE" ELSE "REVIEW_UI"),
                     !.current_phase = "GIT_PR",
                     !.pr_url = IF made THEN create_pr(out).pr_url ELSE @,
                     !.pr_number = IF made THEN create_pr(out).pr_number ELSE @]
              /\ trail' = Trailed(<< <<"GIT_PR">> >>, tries)

\* the replies of a reviewer
Reviews ==
    {<<"P", "A", "S", "S">>, <<"o", "k", " ", "p", "a", "s", "s">>,
     <<"P", "a", "s", "S", "NL">>, <<"o", "k">>, <<"P", "A", "S">>}

\* a review loop that asks for no revision after its last round
review_code_last_unrevised ==
    /\ session.pc = "REVIEW_CODE"
    /\ \E bad \in SUBSET {"get_pr_diff", "add_pr_review"}, exc \in Raised,
          review \in Reviews :
          LET tries == IF session.pr_number # 0
                           THEN {Tried(<<"get_pr_diff">>, bad, exc),
                                 Tried(<<"add_pr_review">>, bad, exc)}
                           ELSE {}
          IN  /\ session' = [session EXCEPT
                     !.pc = Goes(tries,
                                 IF passes(review)
                                        \/ session.review_round + 1 = MAX_REVIEW_ROUNDS
                                     THEN "REVIEW_UI" ELSE "REVISE"),
                     !.current_phase = "REVIEW_CODE",
                     !.review_round = @ + 1,
                     !.review = review]
              /\ trail' = [Trailed(<< <<"REVIEW_CODE">>, <<"REVIEW_CODE", "arch">>,
                                      <<"REVIEW_CODE",
                                        IF passes(review) THEN "pixel"
                                                          ELSE "stack">> >>,
                                   tries)
                            EXCEPT !.reviews = @ \cup {review}]

\* lines 251-287: a round of the code review up to the revision; the diff
\* and the comment have a try block each, entered when the session has a
\* pr_number
review_code ==
    /\ session.pc = "REVIEW_CODE"
    /\ \E bad \in SUBSET {"get_pr_diff", "add_pr_review"}, exc \in Raised,
          review \in Reviews :
          LET tries == IF session.pr_number # 0
                           THEN {Tried(<<"get_pr_diff">>, bad, exc),
                                 Tried(<<"add_pr_review">>, bad, exc)}
                           ELSE {}
          IN  /\ session' = [session EXCEPT
                     !.pc = Goes(tries, IF passes(review) THEN "REVIEW_UI"
                                                          ELSE "REVISE"),
                     !.current_phase = "REVIEW_CODE",
                     !.review_round = @ + 1,
                     !.review = review]
              /\ trail' = [Trailed(<< <<"REVIEW_CODE">>, <<"REVIEW_CODE", "arch">>,
                                      <<"REVIEW_CODE",
                                        IF passes(review) THEN "pixel"
                                                          ELSE "stack">> >>,
                                   tries)
                            EXCEPT !.reviews = @ \cup {review}]

\* a loop that goes round once more than range(1, MAX_REVIEW_ROUNDS + 1)
OneRoundMore ==
    IF session.review_round <= MAX_REVIEW_ROUNDS THEN "REVIEW_CODE" ELSE "REVIEW_UI"

\* for round_num in range(1, MAX_REVIEW_ROUNDS + 1): the round that follows
\* round_num, or the end of the loop
after_round ==
    IF session.review_round < MAX_REVIEW_ROUNDS THEN "REVIEW_CODE" ELSE "REVIEW_UI"

\* lines 289-293: the revision of a round
revise ==
    /\ session.pc = "REVISE"
    /\ session' = [session EXCEPT
           !.pc = IF session.branch_name # "" THEN "GIT_UPDATE" ELSE after_round,
           !.current_phase = "REVISE"]
    /\ trail' = Trailed(<< <<"REVISE">>, <<"REVISE", "stack">> >>, {})

\* lines 295-309: the revision is committed and pushed
git_update ==
    /\ session.pc = "GIT_UPDATE"
    /\ \E bad \in SUBSET {"commit_all", "push_branch"}, exc \in Raised :
          LET tries == {Tried(<<"commit_all", "push_branch">>, bad, exc)}
          IN  /\ session' = [session EXCEPT !.pc = Goes(tries, after_round),
                                            !.current_phase = "GIT_UPDATE"]
              /\ trail' = Trailed(<< <<"GIT_UPDATE">> >>, tries)

\* lines 314-333: the UI review
review_ui ==
    /\ session.pc = "REVIEW_UI"
    /\ \E bad \in SUBSET {"add_pr_review"}, exc \in Raised, ui_review \in Reviews :
          LET tries == IF session.pr_number # 0
                           THEN {Tried(<<"add_pr_review">>, bad, exc)}
                           ELSE {}
          IN  /\ session' = [session EXCEPT
                     !.pc = Goes(tries, IF passes(ui_review) THEN "DONE"
                                                             ELSE "UI_REVISE"),
                     !.current_phase = "REVIEW_UI",
                     !.ui_review = ui_review]
              /\ trail' = Trailed(<< <<"REVIEW_UI">>, <<"REVIEW_UI", "pixel">> >>
                                  \o (IF passes(ui_review) THEN <<>>
                                          ELSE << <<"REVIEW_UI", "stack">> >>),
                                  tries)

\* a UI review that is held again after the revision
ui_revise_and_review ==
    /\ session.pc = "UI_REVISE"
    /\ \E bad \in SUBSET {"commit_all", "push_branch"}, exc \in Raised :
          LET tries == IF session.branch_name # ""
                           THEN {Tried(<<"commit_all", "push_branch">>, bad, exc)}
                           ELSE {}
          IN  /\ session' = [session EXCEPT
                     !.pc = Goes(tries, IF Len(trail.steps) < 60 THEN "REVIEW_UI"
                                                               ELSE "DONE"),
                     !.current_phase = "REVISE"]
              /\ trail' = Trailed(<< <<"REVISE">>, <<"REVISE", "stack">> >>, tries)

\* lines 335-347: the revision after the UI review
ui_revise ==
    /\ session.pc = "UI_REVISE"
    /\ \E bad \in SUBSET {"commit_all", "push_branch"}, exc \in Raised :
          LET tries == IF session.branch_name # ""
                           THEN {Tried(<<"commit_all", "push_branch">>, bad, exc)}
                           ELSE {}
          IN  /\ session' = [session EXCEPT !.pc = Goes(tries, "DONE"),
                                            !.current_phase = "REVISE"]
              /\ trail' = Trailed(<< <<"REVISE">>, <<"REVISE", "stack">> >>, tries)

\* lines 352-353
done ==
    /\ session.pc = "DONE"
    /\ session' = [session EXCEPT !.pc = "returned", !.current_phase = "DONE"]
    /\ trail' = Trailed(<< <<"DONE">> >>, {})

\* ------------------------------------------------------------- persona process
\* What a persona's process does when chat_in_group or chat_stream_in_group
\* runs it.
\*   start   "ok", or why create_subprocess_exec raises: "missing" (no such
\*           command) or "denied" (the command cannot be executed)
\*   lines   the lines it writes to stdout
\*   end     "exit0", "exit1" (a return code other than 0) or "hang" (it
\*           neither writes more nor exits)
\*   stderr  what it writes to stderr: "err", or "429" (one of the
\*           QUOTA_ERROR_KEYWORDS of config.py)
\* A line is blank, or text that json.loads rejects ("junk"), or an object
\* of type "assistant" (with a text item, or a tool_use item with the id
\* tool) or "result".

\* Number of lines a process writes.
MaxLines == 3

Lines ==
    {[type |-> "blank", text |-> <<>>, tool |-> ""],
     [type |-> "junk", text |-> <<"o", "k">>, tool |-> ""],
     [type |-> "junk", text |-> <<"CHUNK_LIMIT">>, tool |-> ""],
     [type |-> "assistant", text |-> <<>>, tool |-> "t1"],
     [type |-> "result", text |-> <<>>, tool |-> ""]}
    \cup {[type |-> t, text |-> x, tool |-> ""] :
             t \in {"assistant", "result"}, x \in {<<"A">>, <<"A", "B">>, <<"B">>}}

Outcomes ==
    {[start |-> s, lines |-> <<>>, end |-> "exit1", stderr |-> <<>>] :
        s \in {"missing", "denied"}}
    \cup {[start |-> "ok", lines |-> l, end |-> e, stderr |-> x] :
             l \in UNION {[1..n -> Lines] : n \in 0..MaxLines},
             e \in {"exit0", "exit1", "hang"},
             x \in {<<"e", "r", "r">>, <<"4", "2", "9">>}}

\* the messages a persona gives in place of a reply:
\*   "TIMEOUT" f"（{self.name}想了太久，超时了喵...）"
\*   "MISSING" f"（找不到 {self.cli_cmd[0]} 命令 ...）"
\*   "TROUBLE" f"（{self.name}出了点状况喵：{e}）" and f"（{self.name}出了状况：{e}）\n"
\*   "PROBLEM" f"（{self.name}遇到了一点问题喵...）\n", followed by err[:300]
\*   "TOO_BIG" f"（{self.name}处理的内容太大了喵 ...）"
\*   "NO_TEXT" "（猫猫处理完了，但没有输出文本喵...）"
\*   "TOOL"    what _format_tool_call makes of a tool_use item

\* _parse_stream_json_output: the result of the last line of type "result"
\* that has one
_parse_stream_json_output(lines) ==
    LET found == {i \in 1..Len(lines) :
                     lines[i].type = "result" /\ lines[i].text # <<>>}
    IN  IF found = {} THEN <<>> ELSE lines[Max(found)].text

RECURSIVE Raw(_)
\* stdout.decode("utf-8"): the lines as they were written
Raw(lines) ==
    IF lines = <<>> THEN <<>>
    ELSE (IF Head(lines).type \in {"blank", "junk"} THEN Head(lines).text
                                                    ELSE <<"{json}">>)
         \o <<"NL">> \o Raw(Tail(lines))

\* CatAgent._clean_output
_clean_output(lines) ==
    IF Contains(Raw(lines), <<"CHUNK_LIMIT">>) THEN <<"TOO_BIG">>
    ELSE IF _parse_stream_json_output(lines) # <<>>
        THEN strip(_parse_stream_json_output(lines))
        ELSE strip(Raw(lines))

\* config.FALLBACK_CLI: the personas that have a fallback, and the helper
\* that stands in
FALLBACK_CLI == [stack |-> [cli_cmd |-> "claude", helper_name |-> "Arch"]]

\* config.QUOTA_ERROR_KEYWORDS, those that occur in the outputs of the model
QUOTA_ERROR_KEYWORDS == {<<"4", "2", "9">>, <<"q", "u", "o", "t", "a">>}

\* CatAgent.chat_in_group, lines 395-402: the commands it starts a process
\* with, one call of create_subprocess_exec with self.cli_cmd
Invoked(o) == <<"cli_cmd">>

\* CatAgent.chat_in_group: what it returns, or that it raises
chat_in_group(o) ==
    LET exc == CASE o.start = "missing" -> "FileNotFoundError"
                 [] o.start = "denied" -> "PermissionError"
                 [] o.end = "hang" -> "TimeoutError"
                 [] OTHER -> ""
    IN  CASE exc = "" ->
                [raised |-> FALSE,
                 text |-> IF _clean_output(o.lines) = <<>> /\ o.end # "exit0"
                              THEN <<"PROBLEM", "NL">> \o strip(o.stderr)
                              ELSE _clean_output(o.lines)]
          [] exc = "TimeoutError" -> [raised |-> FALSE, text |-> TimeoutMessage]
          [] exc = "FileNotFoundError" -> [raised |-> FALSE, text |-> <<"MISSING">>]
          [] OTHER -> [raised |-> exc \notin Exception, text |-> <<"TROUBLE">>]

RECURSIVE Streamed(_, _, _)
\* chat_stream_in_group, lines 441-482: the loop over the lines of stdout
\* from line i on; s holds accumulated_text, seen_tool_ids, final_result and
\* the chunks yielded
Streamed(lines, i, s) ==
    IF i > Len(lines) THEN s
    ELSE IF lines[i].type \in {"blank", "junk"} THEN Streamed(lines, i + 1, s)
    ELSE Streamed(lines, i + 1,
        [accumulated_text |->
             IF lines[i].type = "assistant" /\ lines[i].text # <<>>
                 THEN lines[i].text ELSE s.accumulated_text,
         seen_tool_ids |->
             IF lines[i].tool # "" THEN s.seen_tool_ids \cup {lines[i].tool}
                                   ELSE s.seen_tool_ids,
         final_result |->
             IF lines[i].type = "result" /\ lines[i].text # <<>>
                 THEN lines[i].text ELSE s.final_result,
         chunks |->
             s.chunks
             \o (IF lines[i].tool # "" /\ lines[i].tool \notin s.seen_tool_ids
                     THEN << <<"NL", "TOOL", "NL">> >> ELSE <<>>)
             \o (IF lines[i].type = "assistant" /\ lines[i].text # <<>>
                    /\ lines[i].text # s.accumulated_text
                     THEN IF Len(s.accumulated_text) <= Len(lines[i].text)
                             /\ SubSeq(lines[i].text, 1, Len(s.accumulated_text))
                                = s.accumulated_text
                              THEN <<SubSeq(lines[i].text,
                                            Len(s.accumulated_text) + 1,
                                            Len(lines[i].text))>>
                              ELSE <<lines[i].text>>
                     ELSE <<>>)])

\* chat_stream_in_group, lines 484-488: what follows the loop
AfterStream(s) ==
    IF s.accumulated_text # <<>> THEN s.chunks
    ELSE IF s.final_result # <<>> THEN Append(s.chunks, s.final_result)
    ELSE Append(s.chunks, <<"NO_TEXT">>)

\* CatAgent.chat_stream_in_group: the chunks it yields, whether it comes to
\* an end, or that it raises
chat_stream_in_group(o) ==
    LET s == Streamed(o.lines, 1,
                      [accumulated_text |-> <<>>, seen_tool_ids |-> {},
                       final_result |-> <<>>, chunks |-> <<>>])
    IN  CASE o.start = "missing" ->
                [raised |-> FALSE, ends |-> TRUE, chunks |-> << <<"MISSING", "NL">> >>]
          [] o.start = "denied" ->
                [raised |-> "PermissionError" \notin Exception, ends |-> TRUE,
                 chunks |-> << <<"TROUBLE", "NL">> >>]
          [] o.end = "hang" -> [raised |-> FALSE, ends |-> FALSE, chunks |-> s.chunks]
          [] OTHER -> [raised |-> FALSE, ends |-> TRUE, chunks |-> AfterStream(s)]

\* ------------------------------------------------------------- responders

\* the cat_id as the characters of a text
Spelled(cat_id) ==
    CASE cat_id = "arch" -> <<"a", "r", "c", "h">>
      [] cat_id = "stack" -> <<"s", "t", "a", "c", "k">>
      [] cat_id = "pixel" -> <<"p", "i", "x", "e", "l">>

\* app._pick_responders; shuffled is what random.shuffle makes of ALL_CATS.
\* The second key of each test ("arch酱", "stack喵", "pixel咪") contains the
\* first.
_pick_responders(text, shuffled) ==
    IF Contains(lower(text), Spelled("arch"))
       \/ Contains(lower(text), Spelled("arch") \o <<"JIANG">>) THEN <<"arch">>
    ELSE IF Contains(lower(text), Spelled("stack"))
            \/ Contains(lower(text), Spelled("stack") \o <<"MIAO">>) THEN <<"stack">>
    ELSE IF Contains(lower(text), Spelled("pixel"))
            \/ Contains(lower(text), Spelled("pixel") \o <<"MI">>) THEN <<"pixel">>
    ELSE shuffled

\* process_response, lines 361-368: the third value it returns, next_targets
next_targets(response) ==
    IF response = <<>> \/ Contains(response, SkipMarker)
                       \/ strip(response) = <<"SKIP">>
        THEN <<>>
    ELSE SelectSeq(ALL_CATS,
                   LAMBDA c : Contains(lower(response),
                                       <<"[", "ASK", ":">> \o Spelled(c) \o <<"]">>))

\* The words of a message of the user: the personas by name in several
\* spellings, and a word that names none.
Words ==
    {<<"a", "r", "c", "h">>, <<"A", "r", "c", "h", "JIANG">>,
     <<"S", "T", "A", "C", "K">>, <<"s", "t", "a", "c", "k", "MIAO">>,
     <<"P", "i", "x", "e", "l">>, <<"h", "i">>}

\* Number of words of a message.
MaxWords == 3

RECURSIVE Sentence(_)
\* the words with a blank between them
Sentence(words) ==
    IF words = <<>> THEN <<>>
    ELSE IF Len(words) = 1 THEN words[1]
    ELSE words[1] \o <<" ">> \o Sentence(Tail(words))

Messages == {Sentence(w) : w \in UNION {[1..n -> Words] : n \in 1..MaxWords}}

\* the orders random.shuffle can leave ALL_CATS in
Shuffles == {r \in Responders : Len(r) = Len(ALL_CATS)}

\* ------------------------------------------------------------- runs of the team

\* The table of tasks, the boards and the handlers at rest.
AtRest ==
    /\ db = {}
    /\ started = {}
    /\ task_board = [s \in Sessions |-> <<>>]
    /\ clock = 1
    /\ last = Call("import", "s1", NoId, "", "", FALSE)
    /\ issuedMax = [s \in Sessions |-> 0]
    /\ claimedBy = [s \in Sessions |-> <<>>]
    /\ reply = <<>>
    /\ did = "none"
    /\ actions = <<>>
    /\ shown = <<>>
    /\ chat_history = <<>>
    /\ cat_memories = <<>>
    /\ user_profile = <<>>
    /\ should_stop = FALSE
    /\ run = [h \in Handlers |-> NoRun]
    /\ noted = NothingNoted
    /\ features = <<>>
    /\ pr_number = 0

\* the steps of the team and the calls below leave them so
Aside ==
    UNCHANGED <<db, started, task_board, clock, last, issuedMax, claimedBy,
                reply, did, actions, shown, chat_history, cat_memories,
                user_profile, should_stop, run, noted, features, pr_number>>

\* run has constructed the session (lines 114-118)
InitTeam ==
    /\ AtRest
    /\ session = TeamSession("DISCUSS")
    /\ trail = NoTrail
    /\ arg = NoArg
    /\ got = NoGot

NextTeam ==
    \/ talk("DISCUSS", <<"arch", "stack", "pixel", "stack", "pixel", "arch">>,
            "ANALYZE") /\ Aside /\ UNCHANGED <<arg, got>>
    \/ talk("ANALYZE", <<"arch", "stack">>, "DESIGN")
           /\ Aside /\ UNCHANGED <<arg, got>>
    \/ talk("DESIGN", <<"pixel", "stack">>, "GIT_BRANCH")
           /\ Aside /\ UNCHANGED <<arg, got>>
    \/ git_branch /\ Aside /\ UNCHANGED <<arg, got>>
    \/ talk("CODE", <<"stack">>, "GIT_PR") /\ Aside /\ UNCHANGED <<arg, got>>
    \/ git_pr /\ Aside /\ UNCHANGED <<arg, got>>
    \/ review_code /\ Aside /\ UNCHANGED <<arg, got>>
    \/ revise /\ Aside /\ UNCHANGED <<arg, got>>
    \/ git_update /\ Aside /\ UNCHANGED <<arg, got>>
    \/ review_ui /\ Aside /\ UNCHANGED <<arg, got>>
    \/ ui_revise /\ Aside /\ UNCHANGED <<arg, got>>
    \/ done /\ Aside /\ UNCHANGED <<arg, got>>

SpecTeam == InitTeam /\ [][NextTeam]_vars

\* ------------------------------------------------------------- calls

\* Replies with ask markers: "o[问:pixel]", "[问:STACK]", "[问:x]",
\* "[问：arch]", "[问:arch][问:pixel]", "[跳过][问:pixel]", and "o"
AskReplies ==
    {<<"o", "[", "ASK", ":">> \o Spelled("pixel") \o <<"]">>,
     <<"[", "ASK", ":", "S", "T", "A", "C", "K", "]">>,
     <<"[", "ASK", ":", "x", "]">>,
     <<"[", "ASK", "::">> \o Spelled("arch") \o <<"]">>,
     <<"[", "ASK", ":">> \o Spelled("arch") \o <<"]", "[", "ASK", ":">>
         \o Spelled("pixel") \o <<"]">>,
     SkipMarker \o <<"[", "ASK", ":">> \o Spelled("pixel") \o <<"]">>,
     <<"o">>}

\* A process has run to its end or come to a halt, the user has written a
\* message, a persona has replied: what the functions make of it.
InitCalls ==
    /\ AtRest
    /\ session = TeamSession("none")
    /\ trail = NoTrail
    /\ arg \in {[kind |-> "process", o |-> o] : o \in Outcomes}
               \cup {[kind |-> "message", text |-> m] : m \in Messages}
               \cup {[kind |-> "reply", text |-> r] : r \in AskReplies}
    /\ got = NoGot

\* got after the call of fn with the values v
Called(fn, v) ==
    /\ fn \notin got.called
    /\ got' = [f \in DOMAIN got |->
                  IF f = "called" THEN got.called \cup {fn}
                  ELSE IF f \in DOMAIN v THEN v[f] ELSE got[f]]
    /\ Aside
    /\ UNCHANGED <<session, trail, arg>>

NextCalls ==
    \/ arg.kind = "process"
           /\ Called("chat_in_group",
                     [text |-> chat_in_group(arg.o).text,
                      invoked |-> Invoked(arg.o),
                      raised |-> got.raised \/ chat_in_group(arg.o).raised])
    \/ arg.kind = "process"
           /\ Called("chat_stream_in_group",
                     [chunks |-> chat_stream_in_group(arg.o).chunks,
                      ends |-> chat_stream_in_group(arg.o).ends,
                      raised |-> got.raised \/ chat_stream_in_group(arg.o).raised])
    \/ arg.kind = "message"
           /\ \E shuffled \in Shuffles :
                 Called("_pick_responders",
                        [cats |-> _pick_responders(arg.text, shuffled)])
    \/ arg.kind = "reply"
           /\ Called("process_response", [cats |-> next_targets(arg.text)])

SpecCalls == InitCalls /\ [][NextCalls]_vars

\* ------------------------------------------------------------- asks

\* the reply _cat_respond has been given
Heard(full) ==
    /\ arg' = [kind |-> "reply", text |-> full]
    /\ UNCHANGED <<noted, session, trail, got, features, pr_number>>

\* One call of on_message with a message that names a persona, on an empty
\* board; arg is the last reply a persona gave.
NextAsk ==
    \/ \E i \in 1..Len(ALL_CATS) :
           on_message(1, <<ALL_CATS[i]>>)
           /\ UNCHANGED noted /\ Apart
    \/ on_stop /\ UNCHANGED noted /\ Apart
    \/ stream_ends(1, BlankReply) /\ UNCHANGED noted /\ Apart
    \/ \E full \in AskReplies : stream_ends(1, full) /\ Heard(full)
    \/ \E out \in AskReplies : one_shot_ends(1, out) /\ Heard(out)

SpecAsk == InitWork /\ [][NextAsk]_vars

\* ------------------------------------------------------------- memory
\* The calls of memory.py on the tables cat_memories and user_profile, one
\* after the other as a process makes them (each call opens the database,
\* commits and closes).  In these runs trail.steps is the list of the calls
\* that wrote, each <<function, first argument, second argument>>, and got
\* is the last call: the function, its first argument and what it returned.

\* Number of calls that write.
MaxCalls == 4

\* the keys and values of set_user_info, the texts of add_cat_memory
InfoKeys == {<<"k">>, <<"l">>}

InfoValues == {<<"a">>, <<"e">>}

MemoryTexts == {<<"o">>, <<"o", "k">>}

\* memory.get_all_user_info: {r["key"]: r["value"] for r in rows}
get_all_user_info(profile) == [k \in DOMAIN profile |-> profile[k]]

\* memory.get_user_info: the value of the row of the key, or None
get_user_info(profile, key) ==
    IF key \in DOMAIN profile THEN profile[key] ELSE "None"

\* the call is noted, the rest of the program is left alone
Noted(fn, a, b, ret) ==
    /\ Len(trail.steps) < MaxCalls
    /\ trail' = [trail EXCEPT !.steps = Append(@, <<fn, a, b>>)]
    /\ got' = [fn |-> fn, of |-> a, ret |-> ret]
    /\ UNCHANGED <<db, started, task_board, clock, last, issuedMax, claimedBy,
                   reply, did, actions, shown, chat_history, should_stop, run,
                   noted, session, arg, features, pr_number>>

\* a call that reads
Read(fn, a, ret) ==
    /\ got' = [fn |-> fn, of |-> a, ret |-> ret]
    /\ Aside
    /\ UNCHANGED <<session, trail, arg>>

CallSetUserInfo(key, value) ==
    /\ user_profile' = set_user_info(user_profile, key, value)
    /\ Noted("set_user_info", key, value, "None")
    /\ UNCHANGED cat_memories

CallAddCatMemory(cat_id, memory, importance) ==
    /\ cat_memories' = add_cat_memory(cat_memories, cat_id, memory, importance)
    /\ Noted("add_cat_memory", cat_id, memory, "None")
    /\ UNCHANGED user_profile

InitMemory ==
    /\ AtRest
    /\ session = TeamSession("none")
    /\ trail = NoTrail
    /\ arg = NoArg
    /\ got = [fn |-> "init_db", of |-> <<>>, ret |-> "None"]

NextMemory ==
    \/ \E key \in InfoKeys, value \in InfoValues : CallSetUserInfo(key, value)
    \/ \E cat_id \in {"arch", "stack"}, memory \in MemoryTexts :
           CallAddCatMemory(cat_id, memory, 2)
    \/ Read("get_all_user_info", <<>>, get_all_user_info(user_profile))
    \/ \E key \in InfoKeys :
           Read("get_user_info", key, get_user_info(user_profile, key))

SpecMemory == InitMemory /\ [][NextMemory]_vars

\* ------------------------------------------------------------- feature list
\* FeatureList of feature_list.py: features is the dict self.features as the
\* sequence of its values in insertion order.  The id of a feature is "F-"
\* followed by decimal digits, kept as the sequence of the digits.  A value
\* that is a Feature or None is a sequence of one feature or of none.

\* Number of features added in a run.
MaxFeatures == 3

\* Feature(id=fid, description=description, passes=False)
Feature(fid, description) ==
    [id |-> fid, description |-> description, passes |-> FALSE, notes |-> ""]

\* FeatureList._next_id; every key of the model begins with "F-"
FeatureNextId(list) ==
    IF list # <<>>
        THEN FormatId(Max({ParseId(list[i].id) : i \in 1..Len(list)}) + 1)
        ELSE FormatId(1)

\* FeatureList.add: the list and the feature it returns
FeatureAdd(list, description) ==
    LET f == Feature(FeatureNextId(list), description)
    IN  [features |-> IF \E i \in 1..Len(list) : list[i].id = f.id
                          THEN [i \in 1..Len(list) |->
                                   IF list[i].id = f.id THEN f ELSE list[i]]
                          ELSE Append(list, f),
         ret |-> <<f>>]

\* mark_pass that turns the flag over
mark_pass_toggles(list, feature_id, notes) ==
    IF \E i \in 1..Len(list) : list[i].id = feature_id
        THEN [features |-> [i \in 1..Len(list) |->
                               IF list[i].id = feature_id
                                   THEN [list[i] EXCEPT !.passes = ~@,
                                                        !.notes = notes]
                                   ELSE list[i]],
              ret |-> TRUE]
        ELSE [features |-> list, ret |-> FALSE]

\* FeatureList.mark_pass
mark_pass(list, feature_id, notes) ==
    IF \E i \in 1..Len(list) : list[i].id = feature_id
        THEN [features |-> [i \in 1..Len(list) |->
                               IF list[i].id = feature_id
                                   THEN [list[i] EXCEPT !.passes = TRUE,
                                                        !.notes = notes]
                                   ELSE list[i]],
              ret |-> TRUE]
        ELSE [features |-> list, ret |-> FALSE]

\* get_next_pending that goes through the features from the last
get_last_pending(list) ==
    LET open == {i \in 1..Len(list) : ~list[i].passes}
    IN  IF open = {} THEN <<>> ELSE <<list[Max(open)]>>

\* FeatureList.get_next_pending
get_next_pending(list) ==
    LET open == {i \in 1..Len(list) : ~list[i].passes}
    IN  IF open = {} THEN <<>>
        ELSE <<list[CHOOSE i \in open : \A j \in open : i <= j]>>

\* FeatureList.has_pending
has_pending(list) == \E i \in 1..Len(list) : ~list[i].passes

\* FeatureList.get_progress
get_progress(list) ==
    <<Cardinality({i \in 1..Len(list) : list[i].passes}), Len(list)>>

\* the ids mark_pass is called with: those add can have issued, "F-1", which
\* names no feature, and the id add will issue next
FeatureIdInputs == {FormatId(n) : n \in 1..(MaxFeatures + 1)} \cup {<<1>>}

CallFeatureAdd(description) ==
    /\ Len(features) < MaxFeatures
    /\ features' = FeatureAdd(features, description).features
    /\ pr_number' = pr_number
    /\ got' = [fn |-> "add", of |-> description,
               ret |-> FeatureAdd(features, description).ret]
    /\ UNCHANGED <<db, started, task_board, clock, last, issuedMax, claimedBy,
                   reply, did, actions, shown, chat_history, cat_memories,
                   user_profile, should_stop, run, noted, session, trail, arg>>

CallMarkPass(feature_id, notes) ==
    /\ features' = mark_pass(features, feature_id, notes).features
    /\ pr_number' = pr_number
    /\ got' = [fn |-> "mark_pass", of |-> feature_id,
               ret |-> mark_pass(features, feature_id, notes).ret]
    /\ UNCHANGED <<db, started, task_board, clock, last, issuedMax, claimedBy,
                   reply, did, actions, shown, chat_history, cat_memories,
                   user_profile, should_stop, run, noted, session, trail, arg>>

\* FeatureList(work_dir) where no feature_list.json is
InitFeatures ==
    /\ AtRest
    /\ session = TeamSession("none")
    /\ trail = NoTrail
    /\ arg = NoArg
    /\ got = [fn |-> "__init__", of |-> <<>>, ret |-> <<>>]

NextFeatures ==
    \/ \E description \in {"d", "e"} : CallFeatureAdd(description)
    \/ \E feature_id \in FeatureIdInputs, notes \in {"", "n"} :
           CallMarkPass(feature_id, notes)
    \/ Read("get_next_pending", <<>>, get_next_pending(features))
    \/ Read("has_pending", <<>>, has_pending(features))
    \/ Read("get_progress", <<>>, get_progress(features))

SpecFeatures == InitFeatures /\ [][NextFeatures]_vars

\* ------------------------------------------------------------- /merge
\* The command /team (app._run_team_mode) with the run of the team, and the
\* command /merge (app._handle_merge).  In these runs got counts the /merge
\* commands handled and lists the tries of _handle_merge: the pull request
\* it was given, the calls of git_ops it made and the one that raised.

\* Number of /merge commands in a run.
MaxMerges == 2

\* _run_team_mode, lines 382-391: run has returned the session
team_mode_ends ==
    /\ session.pc = "returned"
    /\ session' = [session EXCEPT !.pc = "shown"]
    /\ pr_number' = IF session.pr_url # <<>> THEN session.pr_number ELSE pr_number
    /\ UNCHANGED <<db, started, task_board, clock, last, issuedMax, claimedBy,
                   reply, did, actions, shown, chat_history, cat_memories,
                   user_profile, should_stop, run, noted, trail, arg, got,
                   features>>

\* _handle_merge
_handle_merge ==
    /\ got.commands < MaxMerges
    /\ \E bad \in SUBSET {"merge_pr", "switch_to_main"}, exc \in Raised :
          LET t == Tried(<<"merge_pr", "switch_to_main">>, bad, exc)
          IN  IF pr_number = 0
                  THEN /\ got' = [got EXCEPT !.commands = @ + 1]
                       /\ pr_number' = pr_number
                  ELSE /\ got' = [commands |-> got.commands + 1,
                                  tries |-> Append(got.tries,
                                                   [pr |-> pr_number,
                                                    made |-> t.made,
                                                    failed |-> t.failed,
                                                    escapes |-> t.escapes])]
                       /\ pr_number' = IF t.failed = {} THEN 0 ELSE pr_number
    /\ UNCHANGED <<db, started, task_board, clock, last, issuedMax, claimedBy,
                   reply, did, actions, shown, chat_history, cat_memories,
                   user_profile, should_stop, run, noted, session, trail, arg,
                   features>>

\* the user has sent /team: run has constructed the session
InitMerge ==
    /\ AtRest
    /\ session = TeamSession("DISCUSS")
    /\ trail = NoTrail
    /\ arg = NoArg
    /\ got = [commands |-> 0, tries |-> <<>>]

NextMerge ==
    \/ NextTeam
    \/ team_mode_ends
    \/ _handle_merge

SpecMerge == InitMerge /\ [][NextMerge]_vars


\* ------------------------------------------------------------- markers
\* Replies put together from whole task markers, to follow the order in
\* which the actions of one reply reach the board.

\*   "[新任务: X]"  "[认领:T-001]"  "[认领:T-002]"  "[完成： T-001]"
\*   "[完成:T-002]"  "o"
MarkerPieces ==
    {<<"[", "NEW_TASK", ":", " ", "X", "]">>,
     <<"[", "CLAIM", ":", "T-", "0", "0", "1", "]">>,
     <<"[", "CLAIM", ":", "T-", "0", "0", "2", "]">>,
     <<"[", "COMPLETE", "::", " ", "T-", "0", "0", "1", "]">>,
     <<"[", "COMPLETE", ":", "T-", "0", "0", "2", "]">>,
     <<"o">>}

RECURSIVE MarkerLists(_)
\* the lists of at most n marker pieces
MarkerLists(n) ==
    IF n = 0 THEN {<<>>}
    ELSE LET shorter == MarkerLists(n - 1)
         IN  shorter \cup {Append(l, p) : l \in shorter, p \in MarkerPieces}

\* As InitReply: session s1 has the pending task T-001 on its board, and a
\* persona's process has produced a reply of marker pieces.
InitMarkers ==
    /\ reply \in MarkerLists(MaxPieces)
    /\ did = "reply"
    /\ actions = <<>>
    /\ shown = <<>>
    /\ db = {OneTask[1]}
    /\ started = {"s1"}
    /\ task_board = [s \in Sessions |-> IF s = "s1" THEN OneTask ELSE <<>>]
    /\ clock = 2
    /\ last = Call("add", "s1", FormatId(1), "", "", TRUE)
    /\ issuedMax = [s \in Sessions |-> 0]
    /\ claimedBy = [s \in Sessions |-> <<>>]
    /\ chat_history = <<>>
    /\ cat_memories = <<>>
    /\ user_profile = <<>>
    /\ should_stop = FALSE
    /\ run = [h \in Handlers |-> NoRun]
    /\ noted = NothingNoted
    /\ Untouched

SpecMarkers == InitMarkers /\ [][NextReply]_vars
\* ------------------------------------------------------------- properties
\* Has and At read a board the way the contract speaks of it: the task of a
\* given id, if there is one.  Board names the board the last call was
\* made on.

Has(b, tid) == \E i \in 1..Len(b) : b[i].id = tid

At(b, tid) == b[CHOOSE i \in 1..Len(b) : b[i].id = tid]

Board == task_board[last.sess]

\* b with the task tid given this status and this owner, the rest as it was
WithTask(b, tid, status, owner) ==
    [i \in 1..Len(b) |->
        IF b[i].id = tid THEN [b[i] EXCEPT !.status = status, !.owner = owner]
        ELSE b[i]]

\* C1: claim(task_id, owner) returns true exactly when the task is on the
\* board with status pending; it then sets the status to doing and the owner
\* to the given owner and touches nothing else; in every other case it
\* returns false and the board is as before.
C1_ClaimContract ==
    [][last'.op = "claim" =>
          LET b == task_board[last'.sess]
              legal == Has(b, last'.tid) /\ At(b, last'.tid).status = "pending"
          IN  /\ last'.ret = legal
              /\ task_board'[last'.sess] =
                     IF legal THEN WithTask(b, last'.tid, "doing", last'.owner)
                     ELSE b]_vars

C1_Witness ==
    /\ last.op = "claim" /\ last.ret /\ last.was = "pending"
    /\ Has(Board, last.tid)
    /\ At(Board, last.tid).status = "doing"
    /\ At(Board, last.tid).owner = last.owner

\* C2: of the claims made on one task while it is on the board, at most one
\* returns true; a later claim by another persona returns false; and the
\* owner is the first claimant for as long as no reassign has succeeded on
\* the task.
C2_SingleClaimant ==
    \A s \in Sessions : \A tid \in DOMAIN claimedBy[s] :
        /\ claimedBy[s][tid].wins <= 1
        /\ ~claimedBy[s][tid].re =>
               /\ Has(task_board[s], tid)
               /\ At(task_board[s], tid).owner = claimedBy[s][tid].first

C2_Witness ==
    /\ last.op = "claim" /\ ~last.ret
    /\ last.tid \in DOMAIN claimedBy[last.sess]
    /\ claimedBy[last.sess][last.tid].first # last.owner
    /\ ~claimedBy[last.sess][last.tid].re
    /\ At(Board, last.tid).owner = claimedBy[last.sess][last.tid].first

\* C3 as amended: complete(task_id) returns true and sets the status to done
\* exactly when the task is on the board with status doing, touching nothing
\* else; on a task that is still pending (neither claimed nor reassigned) it
\* returns false and the status stays pending.
C3_CompleteContract ==
    [][last'.op = "complete" =>
          LET b == task_board[last'.sess]
              legal == Has(b, last'.tid) /\ At(b, last'.tid).status = "doing"
          IN  /\ last'.ret = legal
              /\ task_board'[last'.sess] =
                     IF legal
                         THEN WithTask(b, last'.tid, "done", At(b, last'.tid).owner)
                         ELSE b
              /\ Has(b, last'.tid) /\ At(b, last'.tid).status = "pending" =>
                     /\ ~last'.ret
                     /\ At(task_board'[last'.sess], last'.tid).status = "pending"]_vars

C3_Witness ==
    /\ last.op = "complete" /\ last.ret /\ last.was = "doing"
    /\ At(Board, last.tid).status = "done"

\* C3 as stated: ... and on a task that no claim has won, complete returns
\* false and the status stays pending.
C3_NeverClaimedNeverCompletes ==
    [][last'.op = "complete" =>
          LET b == task_board[last'.sess]
          IN  Has(b, last'.tid) /\ last'.tid \notin DOMAIN claimedBy[last'.sess] =>
                  /\ ~last'.ret
                  /\ At(task_board'[last'.sess], last'.tid).status = "pending"]_vars

\* C4: reassign(task_id, new_owner) returns true exactly when the task is on
\* the board with status pending or doing; it then sets the owner to
\* new_owner and the status to doing; on a done or missing task it returns
\* false.
C4_ReassignContract ==
    [][last'.op = "reassign" =>
          LET b == task_board[last'.sess]
              legal == /\ Has(b, last'.tid)
                       /\ At(b, last'.tid).status \in {"pending", "doing"}
          IN  /\ last'.ret = legal
              /\ legal => task_board'[last'.sess] =
                              WithTask(b, last'.tid, "doing", last'.owner)
              /\ (~Has(b, last'.tid) \/ At(b, last'.tid).status = "done") =>
                     ~last'.ret]_vars

C4_Witness ==
    /\ last.op = "reassign" /\ last.ret /\ last.was = "doing"
    /\ At(Board, last.tid).status = "doing"
    /\ At(Board, last.tid).owner = last.owner

\* C5: when claim, complete or reassign returns false, the board (the set
\* of tasks and the id, title, status and owner of each) is what it was
\* before the call, and so is the table.
C5_FailureLeavesBoard ==
    [][last'.op \in {"claim", "complete", "reassign"} /\ ~last'.ret =>
          /\ task_board' = task_board
          /\ db' = db]_vars

C5_Witness ==
    /\ last.op = "reassign" /\ ~last.ret /\ last.was = "done"
    /\ At(Board, last.tid).status = "done"

\* C6: remove(task_id) returns true exactly when the task was on the board;
\* it then deletes it whatever its status and leaves every other task as it
\* was, in the same order; on an unknown id it returns false and the board
\* is as before.
C6_RemoveContract ==
    [][last'.op = "remove" =>
          LET b == task_board[last'.sess]
          IN  /\ last'.ret = Has(b, last'.tid)
              /\ task_board'[last'.sess] =
                     SelectSeq(b, LAMBDA t : t.id # last'.tid)
              /\ ~Has(task_board'[last'.sess], last'.tid)]_vars

C6_Witness ==
    /\ last.op = "remove" /\ last.ret /\ last.was = "done"
    /\ ~Has(Board, last.tid)
    /\ Len(Board) >= 1

\* C7: add gives the new task the id whose number is the largest number on
\* the board plus one, T-001 on an empty board, with status pending and no
\* owner, and puts it last: T-001 then T-002 on an empty board, and T-003
\* when only T-002 is left after T-001 was removed.
C7_AddAssignsNextId ==
    [][last'.op = "add" =>
          LET b == task_board[last'.sess]
              b2 == task_board'[last'.sess]
              n == IF b = <<>> THEN 1
                   ELSE 1 + Max({ParseId(b[i].id) : i \in 1..Len(b)})
          IN  /\ last'.tid = FormatId(n)
              /\ b = <<>> => last'.tid = <<0, 0, 1>>
              /\ Ids(b) = {<<0, 0, 1>>} => last'.tid = <<0, 0, 2>>
              /\ Ids(b) = {<<0, 0, 2>>} => last'.tid = <<0, 0, 3>>
              /\ Len(b2) = Len(b) + 1
              /\ SubSeq(b2, 1, Len(b)) = b
              /\ b2[Len(b2)].id = last'.tid
              /\ b2[Len(b2)].status = "pending"
              /\ b2[Len(b2)].owner = ""]_vars

C7_Witness ==
    /\ last.op = "add" /\ last.tid = <<0, 0, 3>>
    /\ Ids(Board) = {<<0, 0, 2>>, <<0, 0, 3>>}
    /\ At(Board, last.tid).status = "pending"

\* C8: over any sequence of calls on one board, the id add returns is
\* numerically greater than every id add has returned on that board before
\* (so no id is returned twice).
C8_IdsNeverReused ==
    [][last'.op = "add" => ParseId(last'.tid) > issuedMax[last'.sess]]_vars

\* C9: when a mutating call on a board has made its change and returned, a
\* TaskBoard constructed from the table holds the tasks of that board, with
\* the same id, title, status and owner, in the same order, which is the
\* order of creation.
C9_StoreReconstructsBoard ==
    /\ last.op \in {"add", "claim", "complete", "reassign", "remove", "clear_done"}
    /\ last.ret
    =>
        /\ _load(db) = Board
        /\ \A i, j \in 1..Len(Board) :
               i < j => Board[i].created_at < Board[j].created_at

\* C10, first part: a task of one session is on the board of no other session.
C10_NotVisible ==
    \A s, t \in started : s # t =>
        \A i \in 1..Len(task_board[s]), j \in 1..Len(task_board[t]) :
            task_board[s][i].created_at # task_board[t][j].created_at

\* C10, second part: two sessions do not give one id to two different tasks.
C10_NoIdClash ==
    \A s, t \in started : s # t =>
        \A i \in 1..Len(task_board[s]), j \in 1..Len(task_board[t]) :
            task_board[s][i].id = task_board[t][j].id =>
                task_board[s][i].created_at = task_board[t][j].created_at

\* C10: the state of the task board is scoped per session: a task added in
\* one session is not visible on the board of another, and no task id is
\* given to two different tasks by two sessions.
C10_SessionScoped == C10_NotVisible /\ C10_NoIdClash

\* the reply holds the skip marker, or is the skip word and blanks
SkipReply == Contains(Text(reply), SkipMarker) \/ strip(Text(reply)) = <<"SKIP">>

\* C11: a persona turn whose reply contains the skip marker, or whose
\* trimmed reply is the skip word, has no side effects: the display text is
\* empty, nothing is appended to the chat history, no memory and no
\* user-profile entry is written, and no task action of the reply (create,
\* claim, complete) is applied to the board.
C11_SkipHasNoSideEffects ==
    [][did' = "respond" /\ SkipReply =>
          /\ shown' = <<>>
          /\ UNCHANGED <<chat_history, cat_memories, user_profile>>
          /\ UNCHANGED <<task_board, db>>]_vars

\* the marker a piece of a reply is: "create", "claim", "complete", "idle",
\* or "" for a piece that is no task marker
MarkerOf(piece) ==
    CASE Len(piece) > 2 /\ piece[2] = "NEW_TASK" -> "create"
      [] Len(piece) > 2 /\ piece[2] = "CLAIM" -> "claim"
      [] Len(piece) > 2 /\ piece[2] = "COMPLETE" -> "complete"
      [] piece = <<"[", "IDLE", "]">> -> "idle"
      [] OTHER -> ""

IsCreate(piece) == MarkerOf(piece) = "create"

IsClaim(piece) == MarkerOf(piece) = "claim"

IsComplete(piece) == MarkerOf(piece) = "complete"

NoMarker(piece) == MarkerOf(piece) = ""

NotIdle(a) == a.type # "idle"

NotBlank(c) == c \notin Space

\* C12: parse_task_actions yields one create action per new-task marker of
\* the reply, with the trimmed title, one claim action per claim marker and
\* one complete action per complete marker, and nothing for text without
\* markers; strip_task_markers of the same reply returns the remaining text,
\* and none of those markers is in it.
C12_OneActionPerMarker ==
    [][/\ did' = "parse" =>
            SelectSeq(actions', NotIdle)
                = [i \in 1..Len(SelectSeq(reply, IsCreate)) |->
                      [type |-> "create", title |-> <<"X">>, task_id |-> NoId]]
                  \o [i \in 1..Len(SelectSeq(reply, IsClaim)) |->
                      [type |-> "claim", title |-> <<>>, task_id |-> FormatId(1)]]
                  \o [i \in 1..Len(SelectSeq(reply, IsComplete)) |->
                      [type |-> "complete", title |-> <<>>, task_id |-> FormatId(1)]]
       /\ did' = "strip" =>
            /\ SelectSeq(parse_task_actions(shown'), NotIdle) = <<>>
            /\ (\A i \in 1..Len(reply) : reply[i] # <<"[", "IDLE">>) =>
                   SelectSeq(shown', NotBlank)
                       = SelectSeq(Text(SelectSeq(reply, NoMarker)), NotBlank)]_vars

\* C13: stripping the markers is idempotent: strip_task_markers applied to
\* what strip_task_markers returned returns the same text, also for a reply
\* in which the removal of one marker joins the characters around it into a
\* new marker.
C13_StripIdempotent ==
    [][did' = "strip_again" => shown' = shown]_vars

\* the step begins a call of _cat_respond in the work loop of call 1
WorkTurnBegins ==
    /\ run'[1].pc = "streaming"
    /\ run'[1].queue = <<>>
    /\ <<run'[1].round, run'[1].cat>> # <<run[1].round, run[1].cat>>

\* how far the work loop of a call has come: the rounds begun, the turns
\* of the round begun, and the last lines
Rank(r) ==
    CASE r.pc = "round" -> 8 * r.round + 8
      [] r.pc = "streaming" -> 8 * r.round + 2 * r.cat
      [] r.pc = "one_shot" -> 8 * r.round + 2 * r.cat + 1
      [] r.pc = "report" -> 8 * MAX_WORK_ROUNDS + 9
      [] r.pc = "done" -> 8 * MAX_WORK_ROUNDS + 10
      [] OTHER -> 0

\* the step is one of the work loop of call 1
WorkLoopStep ==
    /\ run[1].pc \in {"round", "streaming", "one_shot", "report"}
    /\ run[1].queue = <<>>
    /\ run'[1] # run[1]
    /\ run'[1].proc # "hung"

\* C14: the work loop always terminates: it runs at most MAX_WORK_ROUNDS
\* outer rounds, invokes each persona at most once per round in the fixed
\* order, and stops before invoking the next persona as soon as the board
\* has no pending or doing task.
C14_WorkLoopTerminates ==
    [][/\ WorkTurnBegins =>
            /\ run'[1].round <= MAX_WORK_ROUNDS
            /\ run'[1].cat <= Len(ALL_CATS)
            /\ \/ run'[1].round = run[1].round + 1 /\ run'[1].cat = 1
               \/ run'[1].round = run[1].round /\ run'[1].cat = run[1].cat + 1
            /\ has_pending_work(task_board'["s1"])
       /\ WorkLoopStep =>
            /\ Rank(run'[1]) > Rank(run[1])
            /\ Rank(run'[1]) <= 8 * MAX_WORK_ROUNDS + 10]_vars

\* the loop has run MAX_WORK_ROUNDS rounds and has ended with work pending
C14_Witness ==
    /\ run[1].pc = "done"
    /\ run[1].round = MAX_WORK_ROUNDS
    /\ run[1].said = "limit"
    /\ has_pending_work(task_board["s1"])

C16_TaskActionsAreProgress ==
    /\ run[1].pc \in {"round", "report", "done"}
    /\ run[1].round >= 1
    /\ noted.progress
    => run[1].idle_streak = 0

\* C17: the last message of the work loop tells how it ended: "paused"
\* exactly when the stop flag is set, "all done" exactly when no pending or
\* doing task remains, and "limit" only when MAX_WORK_ROUNDS rounds were run
\* and work is still pending; a loop that stopped early for idleness does
\* not say "limit".
C17_TerminationReported ==
    [][run[1].pc = "report" /\ run'[1].pc = "done" =>
          /\ run'[1].said = "paused" <=> should_stop
          /\ run'[1].said = "all done" <=> ~has_pending_work(task_board["s1"])
          /\ run'[1].said = "limit" =>
                 /\ run[1].round = MAX_WORK_ROUNDS
                 /\ has_pending_work(task_board["s1"])]_vars

\* the call h of on_message is in _work_loop
InWorkLoop(h) ==
    /\ run[h].pc \in {"round", "streaming", "one_shot", "report"}
    /\ run[h].queue = <<>>

\* C18: at most one work loop of a session is active at any time: a message
\* or a task command that arrives while a work loop of the session is
\* running starts no second one.
C18_OneWorkLoop ==
    Cardinality({h \in Handlers : InWorkLoop(h)}) <= 1

\* the step begins a call of _cat_respond in call 1, in the responder round
\* or in the work loop
TurnBegins ==
    /\ run'[1].pc = "streaming"
    /\ <<run'[1].queue, run'[1].round, run'[1].cat>>
           # <<run[1].queue, run[1].round, run[1].cat>>

\* C19: once the stop flag of the session is set, no persona is invoked any
\* more, neither in the responder round of a message nor in the work loop;
\* only the invocation under way comes to its end.  The flag is looked at
\* before every turn of both loops.
C19_NoTurnAfterStop ==
    [][TurnBegins => ~should_stop']_vars

\* C20: every persona invocation returns to its caller, also when the
\* persona's process hangs, writing nothing and not exiting: the one-shot
\* call and the streaming call both end with an inline message when the
\* configured timeout has passed.  So whenever the process of the
\* invocation under way hangs, the call waits for it under the timeout.
C20_HungCallTimesOut ==
    run[1].proc = "hung" => timeout_pending(1)

\* ------------------------------------------------------------- team: properties

\* how often the persona cat has been asked to speak in the phase
Spoken(phase, cat) ==
    Cardinality({i \in 1..Len(trail.steps) : trail.steps[i] = <<phase, cat>>})

\* the text contains PASS, in capitals or not
SaysPass(text) ==
    \E i \in 1..(Len(text) - 3) :
        /\ text[i] \in {"P", "p"}
        /\ text[i + 1] \in {"A", "a"}
        /\ text[i + 2] \in {"S", "s"}
        /\ text[i + 3] \in {"S", "s"}

\* no reply of the code reviewer has contained PASS
NeverPass == \A r \in trail.reviews : ~SaysPass(r)

\* the code review is over
PastCodeReview == session.pc \in {"REVIEW_UI", "UI_REVISE", "DONE", "returned"}

\* C22: with MAX_REVIEW_ROUNDS = 3 and a code reviewer whose replies never
\* contain PASS, the review loop makes exactly 3 review attempts and then
\* ends: the run never holds a fourth code review, it is past the code review
\* only after the third, it can always take a further step until it has
\* returned, it takes a bounded number of steps (every step adds to the
\* trail), and it returns after the UI review with current_phase = DONE.
C22_ThreeReviewsThenDone ==
    NeverPass =>
        /\ MAX_REVIEW_ROUNDS = 3
        /\ Spoken("REVIEW_CODE", "arch") <= 3
        /\ PastCodeReview => Spoken("REVIEW_CODE", "arch") = 3
        /\ session.pc # "raised"
        /\ session.pc # "returned" => ENABLED NextTeam
        /\ Len(trail.steps) <= 23 + 6 * MAX_REVIEW_ROUNDS
        /\ session.pc = "returned" =>
               /\ Spoken("REVIEW_UI", "pixel") = 1
               /\ session.current_phase = "DONE"

\* the run has returned after three code reviews without a PASS
C22_Witness ==
    /\ session.pc = "returned"
    /\ trail.reviews # {}
    /\ NeverPass
    /\ Spoken("REVIEW_CODE", "arch") = 3
    /\ session.review_round = 3


\* the code reviews held, the acknowledgements of a passed code review, and
\* the revisions asked of the implementation persona in the review loop (the
\* revision after the UI review is the one that follows stack's turn there)
CodeReviews == Spoken("REVIEW_CODE", "arch")
Acknowledged == Spoken("REVIEW_CODE", "pixel")
CodeRevisions ==
    Spoken("REVISE", "stack")
        - (IF session.pc \in {"DONE", "returned"} THEN Spoken("REVIEW_UI", "stack")
                                                   ELSE 0)

\* C23: a code review counts as passed exactly when its reply contains PASS
\* in capitals or not; on the first passing review the loop exits with no
\* further code review and no revision, and on every review that does not
\* pass the implementation persona is asked to revise before the next round.
C23_PassEndsLoopElseRevise ==
    /\ session.current_phase = "REVIEW_CODE" =>
           /\ session.pc \in {"REVIEW_UI", "REVISE"}
           /\ SaysPass(session.review) <=> passes(session.review)
           /\ SaysPass(session.review) <=>
                  (session.pc = "REVIEW_UI" /\ Acknowledged = 1)
           /\ ~SaysPass(session.review) <=>
                  (session.pc = "REVISE" /\ Acknowledged = 0)
    /\ Acknowledged = (IF NeverPass THEN 0 ELSE 1)
    /\ Acknowledged = 1 =>
           /\ PastCodeReview
           /\ SaysPass(session.review)
           /\ CodeRevisions = CodeReviews - 1
           /\ Spoken("REVIEW_CODE", "stack") = CodeReviews - 1
    /\ session.pc = "REVISE" => CodeRevisions = CodeReviews - 1
    /\ session.pc \in {"GIT_UPDATE", "REVIEW_CODE"} =>
           /\ NeverPass
           /\ CodeRevisions = CodeReviews
           /\ Spoken("REVIEW_CODE", "stack") = CodeReviews
    /\ PastCodeReview /\ NeverPass => CodeRevisions = CodeReviews

\* the second code review has passed on a reply with PASS in small letters,
\* after a first that did not pass and was followed by a revision
C23_Witness ==
    /\ session.current_phase = "REVIEW_CODE"
    /\ session.pc = "REVIEW_UI"
    /\ session.review = <<"o", "k", " ", "p", "a", "s", "s">>
    /\ CodeReviews = 2
    /\ CodeRevisions = 1

\* C24: no failure of a call of git_ops (repository setup, branch, commit,
\* push, pull request, diff, comment, push of a revision) ends the run:
\* whatever calls fail, no exception leaves run, the run can take a further
\* step until it has returned, and it returns with current_phase = DONE
\* after the CODE phase, a code review and the UI review.
C24_GitFailuresDoNotAbort ==
    /\ session.pc # "raised"
    /\ session.pc \notin {"returned", "none"} => ENABLED NextTeam
    /\ session.pc = "returned" =>
           /\ session.current_phase = "DONE"
           /\ Spoken("CODE", "stack") = 1
           /\ CodeReviews >= 1
           /\ Spoken("REVIEW_UI", "pixel") = 1
           /\ trail.steps[Len(trail.steps)] = <<"DONE">>

\* the run has returned although the comment on the pull request, the commit
\* of a revision and the push after the UI review have failed
C24_Witness ==
    /\ session.pc = "returned"
    /\ session.current_phase = "DONE"
    /\ <<"REVIEW_CODE", "add_pr_review">> \in trail.failed
    /\ <<"GIT_UPDATE", "commit_all">> \in trail.failed
    /\ <<"REVISE", "push_branch">> \in trail.failed

\* the call of git_ops was made in the phase and did not raise
Succeeded(phase, call) == <<phase, call>> \in trail.made \ trail.failed

\* the branch was created, and the commit, the push and the pull request of
\* the GIT_PR phase were made
PrMade ==
    /\ Succeeded("GIT_BRANCH", "create_branch")
    /\ Succeeded("GIT_PR", "commit_all")
    /\ Succeeded("GIT_PR", "push_branch")
    /\ Succeeded("GIT_PR", "create_pr")

\* C25: the session carries a pull request (pr_url is not empty) exactly
\* when the creation of the branch, the commit, the push and the creation of
\* the pull request have all succeeded; otherwise the run is local only:
\* pr_url is empty, pr_number is 0, and neither the fetch of the diff nor a
\* comment on the pull request is ever attempted.  This holds at the end of
\* run and at every step before it.
C25_PrReferenceIffAllSucceeded ==
    /\ session.pr_url # <<>> <=> PrMade
    /\ ~PrMade =>
           /\ session.pr_url = <<>>
           /\ session.pr_number = 0
           /\ \A c \in trail.made : c[2] \notin {"get_pr_diff", "add_pr_review"}
    /\ session.pc = "returned" /\ PrMade =>
           /\ session.pr_number \in {1, 12}
           /\ <<"REVIEW_CODE", "get_pr_diff">> \in trail.made
           /\ <<"REVIEW_UI", "add_pr_review">> \in trail.made

\* the run has returned without a pull request: the branch was created and
\* the commit made, the push failed, the reviews were held
C25_Witness ==
    /\ session.pc = "returned"
    /\ Succeeded("GIT_BRANCH", "create_branch")
    /\ Succeeded("GIT_PR", "commit_all")
    /\ <<"GIT_PR", "push_branch">> \in trail.failed
    /\ session.pr_url = <<>>
    /\ CodeReviews = 2

\* the values current_phase has been given, in order
PhasesSoFar ==
    LET set == SelectSeq(trail.steps, LAMBDA s : Len(s) = 1)
    IN  [i \in 1..Len(set) |-> set[i][1]]

\* the place of a phase in the pipeline; the phases of the review loop share
\* one place
PlaceOf(phase) ==
    CASE phase = "DISCUSS" -> 1
      [] phase = "ANALYZE" -> 2
      [] phase = "DESIGN" -> 3
      [] phase = "GIT_BRANCH" -> 4
      [] phase = "CODE" -> 5
      [] phase = "GIT_PR" -> 6
      [] phase \in {"REVIEW_CODE", "REVISE", "GIT_UPDATE"} -> 7
      [] phase = "REVIEW_UI" -> 8
      [] phase = "DONE" -> 9

\* C26: current_phase passes through DISCUSS, ANALYZE, DESIGN, GIT_BRANCH,
\* CODE, GIT_PR, the code review (with REVISE and GIT_UPDATE in the review
\* loop only), REVIEW_UI and DONE in that order: it begins with DISCUSS,
\* never goes back to an earlier place of the pipeline and leaves no place
\* out, and DONE is the last phase.
C26_PhasesInOrder ==
    LET p == PhasesSoFar
    IN  /\ p # <<>> => p[1] = "DISCUSS"
        /\ \A i \in 1..(Len(p) - 1) :
               /\ PlaceOf(p[i]) <= PlaceOf(p[i + 1])
               /\ PlaceOf(p[i + 1]) <= PlaceOf(p[i]) + 1
               /\ p[i] # "DONE"
        /\ session.pc = "returned" => p[Len(p)] = "DONE"

\* the steps of the run at which current_phase is given the phase
Entered(phase) == {i \in 1..Len(trail.steps) : trail.steps[i] = <<phase>>}

\* the revisions asked of the implementation persona after step i
RevisedAfter(i) ==
    {j \in (i + 1)..Len(trail.steps) : trail.steps[j] = <<"REVISE", "stack">>}

\* C27: the UI review is held exactly once in a run, after the review loop
\* and whether the code review has passed or not, and it is not looped: a UI
\* review that does not pass is followed by one revision of the
\* implementation persona at most and by no second UI review.
C27_OneUiReview ==
    /\ Cardinality(Entered("REVIEW_UI")) <= 1
    /\ Spoken("REVIEW_UI", "pixel") = Cardinality(Entered("REVIEW_UI"))
    /\ session.pc \in {"UI_REVISE", "DONE", "returned"} =>
           Spoken("REVIEW_UI", "pixel") = 1
    /\ session.pc \in {"DISCUSS", "ANALYZE", "DESIGN", "GIT_BRANCH", "CODE",
                       "GIT_PR", "REVIEW_CODE", "REVISE", "GIT_UPDATE",
                       "REVIEW_UI"} =>
           Spoken("REVIEW_UI", "pixel") = 0
    /\ \A i \in Entered("REVIEW_UI") :
           /\ CodeReviews >= 1
           /\ \A j \in Entered("REVIEW_CODE") \cup Entered("GIT_UPDATE") : j < i
           /\ Cardinality(RevisedAfter(i)) <= 1
           /\ session.pc \in {"DONE", "returned"} =>
                  (Cardinality(RevisedAfter(i)) = 1 <=> ~SaysPass(session.ui_review))

\* the run has returned after a code review that passed, a UI review that
\* did not, and the one revision after it
C27_Witness ==
    /\ session.pc = "returned"
    /\ ~NeverPass
    /\ ~SaysPass(session.ui_review)
    /\ Spoken("REVIEW_UI", "pixel") = 1
    /\ \E i \in Entered("REVIEW_UI") : Cardinality(RevisedAfter(i)) = 1

\* ------------------------------------------------------------- calls: properties

\* the message names the persona, in capitals or not
Names(text, cat_id) == Contains(lower(text), Spelled(cat_id))

\* the personas the message names, in the order of ALL_CATS
Named(text) == SelectSeq(ALL_CATS, LAMBDA c : Names(text, c))

\* the personas of the sequence
Among(cats) == {cats[i] : i \in 1..Len(cats)}

\* C28: when the message names several personas all of them respond, when
\* it names one that persona responds, and the names are matched in
\* capitals or not.
C28_AllNamedRespond ==
    arg.kind = "message" /\ "_pick_responders" \in got.called
                         /\ Named(arg.text) # <<>> =>
        Among(got.cats) = Among(Named(arg.text))

RECURSIVE Joined(_)
\* the chunks one after the other
Joined(chunks) ==
    IF chunks = <<>> THEN <<>> ELSE Head(chunks) \o Joined(Tail(chunks))

\* the process has started, written its lines and exited with 0, and both
\* functions have been called on it
BothCalled ==
    /\ arg.kind = "process"
    /\ arg.o.start = "ok"
    /\ arg.o.end = "exit0"
    /\ got.called = {"chat_in_group", "chat_stream_in_group"}

\* C30: the chunks chat_stream_in_group yields, one after the other, are the
\* text chat_in_group returns for the same lines of the process, and a line
\* that is not JSON is passed over without ending the stream.
C30_StreamEqualsOneShot ==
    BothCalled =>
        /\ Joined(got.chunks) = got.text
        /\ got.ends
        /\ got.chunks = chat_stream_in_group(
               [arg.o EXCEPT !.lines = SelectSeq(arg.o.lines,
                                                 LAMBDA l : l.type # "junk")]).chunks

\* the invocation of the persona has failed: the command is missing or
\* cannot be run, the process hangs until the time is out, or it exits with
\* a code other than 0 and no output
Failed(o) ==
    \/ o.start # "ok"
    \/ o.end = "hang"
    \/ o.end = "exit1" /\ _clean_output(o.lines) = <<>>

\* the text is one of the messages a persona gives in place of a reply
VoicedMessage(text) ==
    \/ text = TimeoutMessage
    \/ text # <<>> /\ text[1] \in {"MISSING", "TROUBLE", "PROBLEM", "NO_TEXT"}

\* C21: a failed invocation of a persona never leaves the call as an
\* exception: on a timeout, a missing command, an exit code other than 0
\* with no output and any other error of the process, chat_in_group returns
\* and chat_stream_in_group yields a message in the persona's voice and
\* comes to an end, so that what follows the call is run.
C21_FailureGivesMessage ==
    arg.kind = "process" /\ Failed(arg.o) =>
        /\ ~got.raised
        /\ "chat_in_group" \in got.called => VoicedMessage(got.text)
        /\ "chat_stream_in_group" \in got.called =>
               /\ got.ends
               /\ got.chunks # <<>>
               /\ VoicedMessage(got.chunks[Len(got.chunks)])

\* ------------------------------------------------------------- asks: properties

\* C29: when a reply that is not a skip carries an ask marker naming a
\* persona, that persona is invited to respond in a further round, and the
\* rounds go on until a round produces no ask: the call of on_message does
\* not return while the last reply asks a persona; a marker that names no
\* persona asks nobody.
C29_AskedPersonaFollows ==
    /\ run[1].pc = "done" /\ arg.kind = "reply" => next_targets(arg.text) = <<>>
    /\ next_targets(<<"[", "ASK", ":", "x", "]">>) = <<>>

\* ------------------------------------------------------------- fallback: properties

\* the primary invocation has failed with output that holds one of the
\* QUOTA_ERROR_KEYWORDS
QuotaFailure(o) ==
    /\ o.start = "ok"
    /\ o.end = "exit1"
    /\ _clean_output(o.lines) = <<>>
    /\ \E k \in QUOTA_ERROR_KEYWORDS : Contains(o.stderr, k)

\* C31: when the primary invocation of a persona that has a fallback (stack)
\* fails with output that holds a quota keyword, chat_in_group invokes the
\* process of the fallback exactly once after its own, and returns its
\* output with the helper's name before it.
C31_FallbackInvokedOnce ==
    arg.kind = "process" /\ QuotaFailure(arg.o)
                         /\ "chat_in_group" \in got.called =>
        \A cat_id \in DOMAIN FALLBACK_CLI :
            /\ got.invoked = <<"cli_cmd", FALLBACK_CLI[cat_id].cli_cmd>>
            /\ got.text # <<>>
            /\ got.text[1] = FALLBACK_CLI[cat_id].helper_name

\* ------------------------------------------------------------- memory: properties

\* the rows of cat_memories that hold the text for the persona
RowsOf(cat_id, memory) ==
    {i \in 1..Len(cat_memories) :
        cat_memories[i].cat_id = cat_id /\ cat_memories[i].memory = memory}

\* how often add_cat_memory was called with the text for the persona
AddedTimes(cat_id, memory) ==
    Cardinality({i \in 1..Len(trail.steps) :
                    trail.steps[i] = <<"add_cat_memory", cat_id, memory>>})

\* C32: memories are kept once per persona and text: adding the same text
\* for the same persona again leaves a single entry, whose importance is
\* raised by one (2 becomes 3), and makes no second entry.
C32_MemoryDedup ==
    \A cat_id \in {"arch", "stack"}, memory \in MemoryTexts :
        /\ Cardinality(RowsOf(cat_id, memory)) <= 1
        /\ AddedTimes(cat_id, memory) = 2 =>
               \A i \in RowsOf(cat_id, memory) : cat_memories[i].importance = 3

\* the calls of set_user_info with the key, as places in the list of calls
WritesOf(key) ==
    {i \in 1..Len(trail.steps) :
        trail.steps[i][1] = "set_user_info" /\ trail.steps[i][2] = key}

\* the value of the most recent call of set_user_info with the key
LastWritten(key) == trail.steps[Max(WritesOf(key))][3]

\* the keys set_user_info has been called with
KeysWritten == {key \in InfoKeys : WritesOf(key) # {}}

\* C33: the user profile holds one row per key and the last write wins:
\* after any sequence of calls of set_user_info the table has exactly the
\* keys written, each with the value of the most recent call for it;
\* get_all_user_info returns that mapping and get_user_info that value (None
\* for a key never written), so a read right after a write sees it.
C33_LastWriteWins ==
    /\ DOMAIN user_profile = KeysWritten
    /\ \A key \in KeysWritten : user_profile[key] = LastWritten(key)
    /\ got.fn = "get_all_user_info" =>
           got.ret = [key \in KeysWritten |-> LastWritten(key)]
    /\ got.fn = "get_user_info" =>
           got.ret = (IF got.of \in KeysWritten THEN LastWritten(got.of)
                                                ELSE "None")

\* a key has been written twice with different values, another key between
\* them, and get_all_user_info has returned the later value
C33_Witness ==
    /\ got.fn = "get_all_user_info"
    /\ \E i, j \in WritesOf(<<"k">>) :
           /\ i + 1 < j
           /\ trail.steps[i][3] # trail.steps[j][3]
           /\ j = Max(WritesOf(<<"k">>))
           /\ got.ret[<<"k">>] = trail.steps[j][3]
    /\ WritesOf(<<"l">>) # {}

\* ------------------------------------------------------------- feature list: properties

\* the number after "F-" in the ids of the list, 0 for the empty list
LargestSuffix(list) ==
    IF list = <<>> THEN 0 ELSE Max({ParseId(list[i].id) : i \in 1..Len(list)})

\* the ids of the features of the list
FeatureIds(list) == {list[i].id : i \in 1..Len(list)}

\* C34: the id add gives a feature is F-(largest suffix in the list + 1),
\* with three digits, and passes is one way: in every step of add and
\* mark_pass a feature whose passes is true stays in the list with passes
\* true, and mark_pass with an id the list does not hold returns false and
\* changes nothing.
C34_IdsAndPassesOneWay ==
    [][/\ \A i \in 1..Len(features) :
              /\ i <= Len(features')
              /\ features'[i].id = features[i].id
              /\ features[i].passes => features'[i].passes
       /\ got'.fn = "add" =>
              /\ Len(features') = Len(features) + 1
              /\ features'[Len(features')].id
                     = ZeroPad(Decimal(LargestSuffix(features) + 1), 3)
              /\ features'[Len(features')].id \notin FeatureIds(features)
              /\ ~features'[Len(features')].passes
              /\ got'.ret = <<features'[Len(features')]>>
       /\ got'.fn = "mark_pass" =>
              IF got'.of \in FeatureIds(features)
                  THEN /\ got'.ret = TRUE
                       /\ \E i \in 1..Len(features) :
                              /\ features[i].id = got'.of
                              /\ features'[i].passes
                  ELSE /\ got'.ret = FALSE
                       /\ features' = features]_vars

\* mark_pass has been called with an id the list does not hold and has
\* returned false, on a list of three features of which the second passes
C34_Witness ==
    /\ got.fn = "mark_pass"
    /\ got.ret = FALSE
    /\ got.of \notin FeatureIds(features)
    /\ Len(features) = 3
    /\ features[3].id = <<0, 0, 3>>
    /\ features[2].passes
    /\ ~features[1].passes

\* the first feature of the list, in insertion order, whose passes is false
FirstPending(list) ==
    {list[i] : i \in {j \in 1..Len(list) :
                         /\ ~list[j].passes
                         /\ \A k \in 1..(j - 1) : list[k].passes}}

\* C40: get_next_pending returns the first feature in insertion order whose
\* passes is false, and None exactly when has_pending() is false, which is
\* when every feature passes (get_progress then counts all of them).  Until
\* that feature is marked passed every step leaves it the one that
\* get_next_pending returns; so a loop that runs while has_pending() ends
\* only in a state in which every feature has passed.
C40_NextPending ==
    /\ [](/\ has_pending(features) <=> \E i \in 1..Len(features) : ~features[i].passes
          /\ get_next_pending(features) = <<>> <=> ~has_pending(features)
          /\ \A f \in FirstPending(features) : get_next_pending(features) = <<f>>
          /\ ~has_pending(features) <=>
                 get_progress(features) = <<Len(features), Len(features)>>
          /\ got.fn = "get_next_pending" =>
                 /\ got.ret = <<>> <=> FirstPending(features) = {}
                 /\ \A f \in FirstPending(features) : got.ret = <<f>>)
    /\ [][\A f \in FirstPending(features) :
              \/ got'.fn = "mark_pass" /\ got'.of = f.id /\ got'.ret = TRUE
              \/ get_next_pending(features') = <<f>>]_vars

\* get_next_pending has returned the second feature of three: the first has
\* passed, the third has not
C40_Witness ==
    /\ got.fn = "get_next_pending"
    /\ Len(features) = 3
    /\ features[1].passes
    /\ ~features[2].passes
    /\ ~features[3].passes
    /\ got.ret = <<features[2]>>

\* ------------------------------------------------------------- /merge: properties

\* the try of _handle_merge has merged the pull request
Merged(t) == "merge_pr" \in t.made \ t.failed

\* C35: a pull request of a run of the team is merged only on the command
\* /merge: run itself makes no call of merge_pr, _handle_merge calls merge_pr
\* only with a pull request stored in the session, and once a merge has
\* succeeded the pull request is no longer stored, so that a later /merge
\* merges nothing.
C35_MergeOnlyOnCommand ==
    /\ \A c \in trail.made : c[2] # "merge_pr"
    /\ Len(got.tries) <= got.commands
    /\ \A i \in 1..Len(got.tries) :
           /\ got.tries[i].pr # 0
           /\ "merge_pr" \in got.tries[i].made
           /\ ~got.tries[i].escapes
           /\ Merged(got.tries[i]) =>
                  /\ i = Len(got.tries)
                  /\ pr_number = 0

\* ------------------------------------------------------------- C36
\* the place of a status in the order pending, doing, done
StatusRank(status) ==
    CASE status = "pending" -> 0 [] status = "doing" -> 1 [] status = "done" -> 2

\* the task of the board of s1 with this id, before and after a step
TaskBefore(tid) == task_board["s1"][Get(task_board["s1"], tid)]

TaskAfter(tid) == task_board'["s1"][Get(task_board'["s1"], tid)]

\* C36: over every call on the board (add, claim, complete, reassign,
\* remove, clear_done, and the reload of on_start) a task that stays on the
\* board never goes back in the order pending, doing, done; a done task that
\* stays is left exactly as it was; and a task leaves the board in a call of
\* remove or clear_done only.
C36_StatusOnlyForward ==
    [][\A tid \in Ids(task_board["s1"]) :
          IF tid \in Ids(task_board'["s1"])
              THEN /\ StatusRank(TaskAfter(tid).status)
                          >= StatusRank(TaskBefore(tid).status)
                   /\ TaskBefore(tid).status = "done"
                          => TaskAfter(tid) = TaskBefore(tid)
              ELSE last'.op \in {"remove", "clear_done"}]_vars

\* a claim or a reassign has been tried on a done task, which is still done
C36_Witness ==
    /\ last.op \in {"claim", "reassign"}
    /\ last.was = "done"
    /\ StatusOf(task_board["s1"], last.tid) = "done"

\* ------------------------------------------------------------- C37
\* C37: on every board the runs reach (claim and reassign being given the
\* name of a persona, never the empty text) a task is pending exactly when
\* its owner is empty, and a call of complete leaves the owner of every task
\* as it was.
C37_PendingIffNoOwner ==
    /\ [](\A i \in 1..Len(task_board["s1"]) :
             (task_board["s1"][i].status = "pending")
                 <=> (task_board["s1"][i].owner = ""))
    /\ [][last'.op = "complete" =>
             /\ Ids(task_board'["s1"]) = Ids(task_board["s1"])
             /\ \A tid \in Ids(task_board["s1"]) :
                    TaskAfter(tid).owner = TaskBefore(tid).owner]_vars

\* complete has finished a task, which has kept its owner
C37_Witness ==
    /\ last.op = "complete"
    /\ last.ret
    /\ \E i \in 1..Len(task_board["s1"]) :
           /\ task_board["s1"][i].id = last.tid
           /\ task_board["s1"][i].status = "done"
           /\ task_board["s1"][i].owner \in CatNames \cup UserOwners

\* ------------------------------------------------------------- C38
\* the id a marker piece names: the digits in front of its "]"
NamedId(piece) == IdOf(SubSeq(piece, Len(piece) - 3, Len(piece) - 1))

\* the action a marker piece stands for
ActionOf(piece) ==
    IF IsCreate(piece)
        THEN [type |-> "create", title |-> <<"X">>, task_id |-> NoId]
        ELSE [type |-> MarkerOf(piece), title |-> <<>>, task_id |-> NamedId(piece)]

\* the actions of the pieces of one kind, in the order of the text
ActionsOfKind(pieces, kind) ==
    LET of_kind == SelectSeq(pieces, LAMBDA p : MarkerOf(p) = kind)
    IN  [i \in 1..Len(of_kind) |-> ActionOf(of_kind[i])]

\* the reply has a marker of this kind for the task n
Marks(kind, n) ==
    \E i \in 1..Len(reply) :
        /\ MarkerOf(reply[i]) = kind
        /\ kind # "create" => NamedId(reply[i]) = FormatId(n)

\* C38: whatever the order of the markers in the text of a reply,
\* parse_task_actions returns the creates, then the claims, then the
\* completes, each kind in the order of the text, and _cat_respond applies
\* them in that order: a reply with a claim and a complete marker for the
\* pending task T-001 leaves it done, owned by the persona; and a reply with
\* a new-task marker and a claim marker for T-002, the id the new task
\* gets, leaves T-002 claimed by the persona (and done when the reply also
\* completes it).
C38_ActionsGroupedByType ==
    /\ did = "parse" =>
           actions = ActionsOfKind(reply, "create")
                         \o ActionsOfKind(reply, "claim")
                         \o ActionsOfKind(reply, "complete")
    /\ did = "respond" =>
           /\ Len(task_board["s1"])
                  = 1 + Len(ActionsOfKind(reply, "create"))
           /\ Marks("claim", 1) /\ Marks("complete", 1) =>
                  /\ At(task_board["s1"], FormatId(1)).status = "done"
                  /\ At(task_board["s1"], FormatId(1)).owner
                         \in {NameOf(ALL_CATS[i]) : i \in 1..Len(ALL_CATS)}
           /\ Marks("create", 0) /\ Marks("claim", 2) =>
                  /\ Has(task_board["s1"], FormatId(2))
                  /\ At(task_board["s1"], FormatId(2)).status
                         = (IF Marks("complete", 2) THEN "done" ELSE "doing")
                  /\ At(task_board["s1"], FormatId(2)).owner
                         \in {NameOf(ALL_CATS[i]) : i \in 1..Len(ALL_CATS)}

\* a reply whose text has the complete marker of T-001 before its claim
\* marker, and the claim marker of T-002 before the new-task marker, has
\* been applied: T-001 is done and T-002 is claimed
C38_Witness ==
    /\ did = "respond"
    /\ \E i, j \in 1..Len(reply) :
           /\ i < j
           /\ IsComplete(reply[i]) /\ NamedId(reply[i]) = FormatId(1)
           /\ IsClaim(reply[j]) /\ NamedId(reply[j]) = FormatId(1)
    /\ At(task_board["s1"], FormatId(1)).status = "done"

\* ------------------------------------------------------------- C39
\* the places of the trail where the persona cat speaks in the phase
PlacesOf(phase, cat) == {i \in 1..Len(trail.steps) : trail.steps[i] = <<phase, cat>>}

\* the revision of the last code review was made, and no code review
\* followed it
LastRevisionUnreviewed ==
    \E j \in PlacesOf("REVISE", "stack") :
        /\ \A k \in PlacesOf("REVIEW_CODE", "arch") : k < j
        /\ \A k \in 1..Len(trail.steps) : trail.steps[k] = <<"REVIEW_UI">> => j < k

\* C39: when run has returned, review_round is the number of code reviews
\* held, which is at least 1 and at most MAX_REVIEW_ROUNDS; the revisions
\* asked of the implementation persona in the review loop are as many as
\* the code reviews that did not pass (the reviews held less the one the
\* third persona acknowledged as passed); and when no review has passed,
\* all MAX_REVIEW_ROUNDS rounds were held and the revision of the last one
\* went to the UI review without a further code review.
C39_RoundsAndRevisions ==
    session.pc = "returned" =>
        /\ session.review_round = CodeReviews
        /\ CodeReviews \in 1..MAX_REVIEW_ROUNDS
        /\ Acknowledged \in {0, 1}
        /\ CodeRevisions = CodeReviews - Acknowledged
        /\ Acknowledged = 1 <=> ~NeverPass
        /\ NeverPass => /\ CodeReviews = MAX_REVIEW_ROUNDS
                        /\ CodeRevisions = MAX_REVIEW_ROUNDS
                        /\ LastRevisionUnreviewed

\* a run has returned in which every round of the code review failed
C39_Witness ==
    /\ session.pc = "returned"
    /\ NeverPass
    /\ session.review_round = MAX_REVIEW_ROUNDS
    /\ Spoken("REVISE", "stack") >= MAX_REVIEW_ROUNDS

====
